---- MODULE Spec2Model ----
(***************************************************************************)
(* A model of the template-literal value-resolution engine:                *)
(*   - generateCombinations   (src/src/parsers/template-literal-parser.ts) *)
(*   - extractValuesFromDeclaration and its helpers                        *)
(*                            (src/src/resolvers/value-extractor.ts,       *)
(*                             src/src/utils/typescript-helpers.ts)        *)
(*   - resolveVariable and its strategies                                  *)
(*                            (src/src/resolvers/variable-resolver.ts)     *)
(*   - buildDecorations       (src/src/output.ts)                          *)
(*   - resolveImportPath      (src/src/resolvers/import-resolver.ts)       *)
(*   - findTemplateLiterals   (src/src/parsers/template-literal-parser.ts) *)
(*   - findDeclarationInFile, findExportedDeclaration                      *)
(*                            (src/src/utils/typescript-helpers.ts,        *)
(*                             src/unnamed/part_008)                       *)
(*   - activate, scheduleUpdate, updateDecorations (src/unnamed/part_010)  *)
(* Strings are TLA+ strings, string concatenation is \o.                   *)
(***************************************************************************)
EXTENDS Integers, Sequences, FiniteSets, TLC

VARIABLES
  \* ---- generateCombinations ----
  templateParts,    \* the TemplatePart[] argument
  variableValues,   \* the Map<string, string[]> argument (a function on its keys)
  genStack,         \* the call stack of the inner function generate(index, current)
  results,          \* the local array `results`
  genPc,            \* "idle" | "run" | "done"; "off" when not exercised
  output,           \* the value returned by generateCombinations
  \* ---- the parsed files, the file system and the bound extractor ----
  world,            \* the SourceFiles (declarations, imports) reachable from disk
  impl,             \* which definition of extractValuesFromDeclaration is bound
  \* ---- extractValuesFromDeclaration ----
  request,          \* the declaration of the top-level call
  exStack,          \* the chain of active extractValuesFromDeclaration calls
  exRet,            \* the value returned by the call that returned last
  exPc,             \* "idle" | "run" | "done"; "off" when not exercised
  exResult,         \* the value returned by the top-level call
  entered,          \* every (file, declaration) a call was entered with, in order
  \* ---- resolveVariable ----
  varExpression,    \* the expression, as its sequence of names: <<"m", "p">> is m.p
  position,         \* whether a position was passed
  oracle,           \* what the language service answers at that position
  rvIdx,            \* the strategy resolveVariable is about to call
  trace,            \* the strategies called so far, with what each returned
                    \* and the hover queries issued by then
  result,           \* the array resolveVariable returned
  outcome,          \* "running" | "returned" | "raised" | "diverged"
  hoverQueries,     \* the hover queries issued at the position so far
  rvRun,            \* which call of resolveVariable this is, the first or second
  firstResult,      \* the array the first call returned
  \* ---- updateDecorations / buildDecorations ----
  positions,        \* the TemplateLiteralPosition[] found in the document
  decGroup,         \* the group of `grouped` the loop of buildDecorations is at
  decPos,           \* the position of that group resolveVariableValues is at
  decPart,          \* the template part of that position it is at
  varValues,        \* the Map<string, string[]> resolveVariableValues builds
  decorations,      \* the local array `decorations`
  decPc,            \* where updateDecorations stands; "off" when not exercised
  shown,            \* what editor.setDecorations was last given
  cancelled,        \* whether the batch has been asked to stop
  \* ---- resolveImportPath ----
  importPath,       \* the module specifier of the import declaration
  disk,             \* the paths vscode.workspace.fs.stat finds a file at
  ipCandidates,     \* the candidates the loop has still to try
  ipStats,          \* the paths fs.stat was called with, in order
  ipPc,             \* "idle" | "stat" | "done"; "off" when not exercised
  ipResult,         \* the Uri returned, NoUri for undefined
  \* ---- findTemplateLiterals, one template expression on one line ----
  spans,            \* node.templateSpans: the expressions, each with its start
  scSpan,           \* the span forEach is at
  scParts,          \* the local array `templateParts`
  scPositions,      \* the array `positions` returned
  scPc,             \* "idle" | "spans" | "done"; "off" when not exercised
  \* ---- activate: scheduleUpdate and updateDecorations ----
  windowEditor,     \* vscode.window.activeTextEditor, NoEditor for undefined
  activeEditor,     \* the local `activeEditor`
  timeout,          \* the local `timeout`: the handle setTimeout returned last
  timers,           \* the timers set and neither cleared nor fired
  now,              \* the time, in units of 500 ms
  version,          \* the version of each editor's document
  running,          \* the updateDecorations calls awaiting buildDecorations
  applied,          \* the document version of the decorations each editor shows
  started,          \* the updateDecorations calls started, in order
  lastTrigger,      \* the last call of scheduleUpdate
  edPc,             \* "active" once activate has run; "off" when not exercised
  \* ---- findDeclarationInFile and findExportedDeclaration ----
  fdName,           \* the argument `name`
  fdVersion,        \* which definition of findDeclarationInFile is bound
  fdDeclaration,    \* what findDeclarationInFile returned, 0 for undefined
  fdExported,       \* what findExportedDeclaration returned, 0 for undefined
  fdPc              \* the calls made so far; "off" when not exercised

genVars == <<templateParts, variableValues, genStack, results, genPc, output>>

exVars == <<world, impl, request, exStack, exRet, exPc, exResult, entered>>

rvVars == <<varExpression, position, oracle, rvIdx, trace, result, outcome,
            hoverQueries, rvRun, firstResult>>

decVars == <<positions, decGroup, decPos, decPart, varValues, decorations,
             decPc, shown, cancelled>>

ipVars == <<importPath, disk, ipCandidates, ipStats, ipPc, ipResult>>

scVars == <<spans, scSpan, scParts, scPositions, scPc>>

edVars == <<windowEditor, activeEditor, timeout, timers, now, version,
            running, applied, started, lastTrigger, edPc>>

fdVars == <<fdName, fdVersion, fdDeclaration, fdExported, fdPc>>

vars == <<templateParts, variableValues, genStack, results, genPc, output,
          world, impl, request, exStack, exRet, exPc, exResult, entered,
          varExpression, position, oracle, rvIdx, trace, result, outcome,
          hoverQueries, rvRun, firstResult,
          positions, decGroup, decPos, decPart, varValues, decorations,
          decPc, shown, cancelled,
          importPath, disk, ipCandidates, ipStats, ipPc, ipResult,
          spans, scSpan, scParts, scPositions, scPc,
          windowEditor, activeEditor, timeout, timers, now, version,
          running, applied, started, lastTrigger, edPc,
          fdName, fdVersion, fdDeclaration, fdExported, fdPc>>

-----------------------------------------------------------------------------
(* Generic helpers *)

Min(a, b) == IF a < b THEN a ELSE b

Range(s) == {s[i] : i \in 1..Len(s)}

\* Array.prototype.slice(0, n)
SliceFront(s, n) == SubSeq(s, 1, Min(n, Len(s)))

-----------------------------------------------------------------------------
(* generateCombinations *)

\* values.slice(0, 10)
MaxValuesPerVariable == 10

\* results.slice(0, 20)
MaxResults == 20

StaticPart(v) == [type |-> "static", value |-> v]
VariablePart(v) == [type |-> "variable", value |-> v]

\* variableValues.get(part.value): undefined is modelled as the empty array,
\* which the code treats the same way (values && values.length > 0)
MapGet(m, k) == IF k \in DOMAIN m THEN m[k] ELSE <<>>

\* a variant that branches on one value too many
SliceValuesOffByOne(values) == SliceFront(values, MaxValuesPerVariable + 1)

\* values.slice(0, 10)
SliceValues(values) == SliceFront(values, MaxValuesPerVariable)

\* a variant that substitutes nothing for an unresolved variable
PlaceholderDropped(part) == ""

\* `{${part.value}}`
Placeholder(part) == "{" \o part.value \o "}"

\* a variant that keeps the last 20 instead of the first 20
SliceResultsLast(rs) ==
  SubSeq(rs, Len(rs) - Min(MaxResults, Len(rs)) + 1, Len(rs))

\* return results.slice(0, 20)
SliceResults(rs) == SliceFront(rs, MaxResults)

GenFrame(index, current, k) == [index |-> index, current |-> current, k |-> k]

GenTop == genStack[Len(genStack)]

GenPop == SubSeq(genStack, 1, Len(genStack) - 1)

GenReplaceTopAndPush(top, child) ==
  Append([genStack EXCEPT ![Len(genStack)] = top], child)

\* generateCombinations is called: results = [], generate(0, "")
GenCall ==
  /\ genPc = "idle"
  /\ genPc' = "run"
  /\ results' = <<>>
  /\ genStack' = <<GenFrame(1, "", 0)>>
  /\ UNCHANGED <<templateParts, variableValues, output>>
  /\ UNCHANGED exVars
  /\ UNCHANGED rvVars
  /\ UNCHANGED decVars
  /\ UNCHANGED ipVars
  /\ UNCHANGED <<scVars, edVars, fdVars>>

\* if (index >= templateParts.length) { results.push(current); return; }
GenEmit ==
  /\ genPc = "run" /\ genStack # <<>>
  /\ GenTop.index > Len(templateParts)
  /\ results' = Append(results, GenTop.current)
  /\ genStack' = GenPop
  /\ UNCHANGED <<templateParts, variableValues, genPc, output>>
  /\ UNCHANGED exVars
  /\ UNCHANGED rvVars
  /\ UNCHANGED decVars
  /\ UNCHANGED ipVars
  /\ UNCHANGED <<scVars, edVars, fdVars>>

\* part.type === "static": generate(index + 1, current + part.value)
GenStatic ==
  /\ genPc = "run" /\ genStack # <<>>
  /\ GenTop.index <= Len(templateParts)
  /\ LET part == templateParts[GenTop.index] IN
       /\ part.type = "static"
       /\ GenTop.k = 0
       /\ genStack' = GenReplaceTopAndPush(
            [GenTop EXCEPT !.k = 1],
            GenFrame(GenTop.index + 1, GenTop.current \o part.value, 0))
  /\ UNCHANGED <<templateParts, variableValues, results, genPc, output>>
  /\ UNCHANGED exVars
  /\ UNCHANGED rvVars
  /\ UNCHANGED decVars
  /\ UNCHANGED ipVars
  /\ UNCHANGED <<scVars, edVars, fdVars>>

\* for (const value of values.slice(0, 10)) generate(index + 1, current + value)
GenBranch ==
  /\ genPc = "run" /\ genStack # <<>>
  /\ GenTop.index <= Len(templateParts)
  /\ LET part == templateParts[GenTop.index]
         values == MapGet(variableValues, part.value)
         branch == SliceValues(values)
     IN
       /\ part.type # "static"
       /\ Len(values) > 0
       /\ GenTop.k < Len(branch)
       /\ genStack' = GenReplaceTopAndPush(
            [GenTop EXCEPT !.k = GenTop.k + 1],
            GenFrame(GenTop.index + 1, GenTop.current \o branch[GenTop.k + 1], 0))
  /\ UNCHANGED <<templateParts, variableValues, results, genPc, output>>
  /\ UNCHANGED exVars
  /\ UNCHANGED rvVars
  /\ UNCHANGED decVars
  /\ UNCHANGED ipVars
  /\ UNCHANGED <<scVars, edVars, fdVars>>

\* else generate(index + 1, current + `{${part.value}}`)
GenPlaceholder ==
  /\ genPc = "run" /\ genStack # <<>>
  /\ GenTop.index <= Len(templateParts)
  /\ LET part == templateParts[GenTop.index]
         values == MapGet(variableValues, part.value)
     IN
       /\ part.type # "static"
       /\ Len(values) = 0
       /\ GenTop.k = 0
       /\ genStack' = GenReplaceTopAndPush(
            [GenTop EXCEPT !.k = 1],
            GenFrame(GenTop.index + 1, GenTop.current \o Placeholder(part), 0))
  /\ UNCHANGED <<templateParts, variableValues, results, genPc, output>>
  /\ UNCHANGED exVars
  /\ UNCHANGED rvVars
  /\ UNCHANGED decVars
  /\ UNCHANGED ipVars
  /\ UNCHANGED <<scVars, edVars, fdVars>>

\* generate(index, current) returns after its last inner call
GenReturn ==
  /\ genPc = "run" /\ genStack # <<>>
  /\ GenTop.index <= Len(templateParts)
  /\ LET part == templateParts[GenTop.index]
         values == MapGet(variableValues, part.value)
     IN
       \/ part.type = "static" /\ GenTop.k = 1
       \/ part.type # "static" /\ Len(values) = 0 /\ GenTop.k = 1
       \/ part.type # "static" /\ Len(values) > 0
            /\ GenTop.k = Len(SliceValues(values))
  /\ genStack' = GenPop
  /\ UNCHANGED <<templateParts, variableValues, results, genPc, output>>
  /\ UNCHANGED exVars
  /\ UNCHANGED rvVars
  /\ UNCHANGED decVars
  /\ UNCHANGED ipVars
  /\ UNCHANGED <<scVars, edVars, fdVars>>

\* generate(0, "") has returned: return results.slice(0, 20)
GenFinish ==
  /\ genPc = "run" /\ genStack = <<>>
  /\ output' = SliceResults(results)
  /\ genPc' = "done"
  /\ UNCHANGED <<templateParts, variableValues, genStack, results>>
  /\ UNCHANGED exVars
  /\ UNCHANGED rvVars
  /\ UNCHANGED decVars
  /\ UNCHANGED ipVars
  /\ UNCHANGED <<scVars, edVars, fdVars>>

-----------------------------------------------------------------------------
(* The syntax trees: what ts.createSourceFile yields for a file.           *)
(* A file is its declarations in depth-first pre-order plus its top-level  *)
(* import statements.  Nodes are records; text is what getText returns.    *)

\* no type node / no initializer
NoType == [k |-> "none", members |-> <<>>, paren |-> FALSE, obj |-> "",
           text |-> ""]

NoInit == [k |-> "none", ek |-> "", props |-> <<>>, text |-> "", type |-> ""]

\* a union type; each member is [lit, quote, text]
UnionType(members) == [k |-> "union", members |-> members, paren |-> FALSE,
                       obj |-> "", text |-> ""]

\* a string-literal union member written with the given quote character
Lit(quote, text) == [lit |-> TRUE, quote |-> quote, text |-> text]

\* a union member that is no string-literal type (number, a type reference)
NonLit(text) == [lit |-> FALSE, quote |-> "", text |-> text]

\* (typeof obj)[keyof typeof obj] when paren, typeof obj[keyof typeof obj] if not
IndexedTypeof(paren, obj) == [k |-> "indexed", members |-> <<>>,
                              paren |-> paren, obj |-> obj, text |-> ""]

\* a type reference by name
TypeRef(name) == [k |-> "ref", members |-> <<>>, paren |-> FALSE, obj |-> "",
                  text |-> name]

\* a single string-literal type
LiteralType(text) == [k |-> "literal", members |-> <<>>, paren |-> FALSE,
                      obj |-> "", text |-> text]

\* initializers of variables and of property assignments
StrInit(text) == [k |-> "str", ek |-> "", props |-> <<>>, text |-> text,
                  type |-> ""]

ObjInit(props) == [k |-> "obj", ek |-> "", props |-> props, text |-> "",
                   type |-> ""]

IdentInit(name) == [k |-> "ident", ek |-> "", props |-> <<>>, text |-> name,
                    type |-> ""]

OtherInit == [k |-> "other", ek |-> "", props |-> <<>>, text |-> "",
              type |-> ""]

\* `inner as type`: ek, props and text are those of the asserted expression
AsInit(inner, type) == [k |-> "as", ek |-> inner.k, props |-> inner.props,
                        text |-> inner.text, type |-> type]

\* an object-literal member; kind "assign" is a PropertyAssignment, the name
\* is written bare (quote "") or as a string literal
Prop(quote, name, init) == [kind |-> "assign", quote |-> quote, name |-> name,
                            init |-> init]

ShorthandProp(name) == [kind |-> "shorthand", quote |-> "", name |-> name,
                        init |-> NoInit]

\* an enum member: its name as written (an identifier, or a string literal
\* between `quote` characters), whether its initializer is a string literal,
\* and that literal's text
QuotedEnumMember(quote, name, hasInit, text) ==
  [quote |-> quote, name |-> name, hasInit |-> hasInit, text |-> text]

EnumMember(name, hasInit, text) == QuotedEnumMember("", name, hasInit, text)

VarDecl(name, type, init) ==
  [kind |-> "var", name |-> name, exported |-> FALSE, type |-> type,
   init |-> init, members |-> <<>>, parent |-> 0]

EnumDecl(name, members) ==
  [kind |-> "enum", name |-> name, exported |-> FALSE, type |-> NoType,
   init |-> NoInit, members |-> members, parent |-> 0]

AliasDecl(name, type) ==
  [kind |-> "alias", name |-> name, exported |-> FALSE, type |-> type,
   init |-> NoInit, members |-> <<>>, parent |-> 0]

\* a property signature of an interface or type literal
PropSig(name, type) ==
  [kind |-> "propsig", name |-> name, exported |-> FALSE, type |-> type,
   init |-> NoInit, members |-> <<>>, parent |-> 0]

ParamDecl(name, type) ==
  [kind |-> "param", name |-> name, exported |-> FALSE, type |-> type,
   init |-> NoInit, members |-> <<>>, parent |-> 0]

Exported(d) == [d EXCEPT !.exported = TRUE]

\* an element of a named-export clause: `name`, or `propertyName as name`
\* (propertyName = "" when there is no `as`)
ExportSpecifier(propertyName, name) ==
  [propertyName |-> propertyName, name |-> name]

\* export { elements }
ExportDecl(elements) ==
  [kind |-> "export", name |-> "", exported |-> FALSE, type |-> NoType,
   init |-> NoInit, members |-> elements, parent |-> 0]

\* import { names } from "<specifier>"; a relative specifier names the file
\* `target` ("missing": no candidate path exists on disk)
ImportDecl(names, relative, target) ==
  [names |-> names, relative |-> relative, target |-> target]

SourceFile(decls, imports) == [decls |-> decls, imports |-> imports]

FileIds == {"main", "lib"}

Decls(f) == world[f].decls

DeclAt(f, i) == world[f].decls[i]

\* the absence of a node (undefined)
NoNode == [f |-> "", i |-> 0]

Node(f, i) == [f |-> f, i |-> i]

-----------------------------------------------------------------------------
(* src/src/utils/typescript-helpers.ts: the declaration locator *)

FirstIndex(S) == IF S = {} THEN 0 ELSE CHOOSE i \in S : \A j \in S : i <= j

\* findDeclarationInFile: the first variable declaration, enum or type alias
\* named `name`, in pre-order
FindDeclarationInFile(f, name) ==
  FirstIndex({i \in 1..Len(Decls(f)) :
                /\ Decls(f)[i].kind \in {"var", "enum", "alias"}
                /\ Decls(f)[i].name = name})

\* findImportDeclaration: the first import statement with a named binding
\* `varName`
FindImportDeclaration(f, varName) ==
  FirstIndex({i \in 1..Len(world[f].imports) :
                varName \in world[f].imports[i].names})

\* part_008 10-58: the same search with parameters among the kinds
FindDeclarationOrParameter(f, name) ==
  FirstIndex({i \in 1..Len(Decls(f)) :
                /\ Decls(f)[i].kind \in {"var", "enum", "alias", "param"}
                /\ Decls(f)[i].name = name})

\* findExportedDeclaration, the test made on one statement: a named-export
\* clause with an element called `name` (lines 67-78), or a variable, enum
\* or type alias called `name` with the export modifier (80-99)
ExportsName(d, name) ==
  /\ d.parent = 0
  /\ \/ /\ d.kind = "export"
        /\ \E e \in 1..Len(d.members) : d.members[e].name = name
     \/ /\ d.kind \in {"var", "enum", "alias"}
        /\ d.exported
        /\ d.name = name

\* what the loop returns at the statement it stops at: for a clause
\* findDeclarationInFile(sourceFile, found.name.text), which is the search
\* for `name` again; for a declaration that declaration
ExportedAt(f, hit, name, inFile) ==
  IF hit = 0 \/ Decls(f)[hit].kind = "export" THEN inFile ELSE hit

\* findExportedDeclaration (62-102): the first statement that exports
\* `name`, else findDeclarationInFile
FindExportedDeclaration(f, name) ==
  ExportedAt(f,
             FirstIndex({i \in 1..Len(Decls(f)) :
                           ExportsName(Decls(f)[i], name)}),
             name, FindDeclarationInFile(f, name))

\* part_008 86-128: the same function over the search of part_008
FindExportedOrParameter(f, name) ==
  ExportedAt(f,
             FirstIndex({i \in 1..Len(Decls(f)) :
                           ExportsName(Decls(f)[i], name)}),
             name, FindDeclarationOrParameter(f, name))

\* resolveImportPath: undefined for a non-relative specifier; for a relative
\* one the first existing candidate, else the path specifier + ".ts", which
\* does not exist
ResolveImportPath(imp) ==
  IF ~imp.relative THEN [defined |-> FALSE, exists |-> FALSE, file |-> ""]
  ELSE IF imp.target \in FileIds
       THEN [defined |-> TRUE, exists |-> TRUE, file |-> imp.target]
       ELSE [defined |-> TRUE, exists |-> FALSE, file |-> ""]

\* findExportedDeclaration(importedSourceFile, name) after the file was opened
ExportedNode(file, i) ==
  [node |-> IF i = 0 THEN NoNode ELSE Node(file, i),
   threw |-> FALSE, opened |-> file]

\* vscode.workspace.openTextDocument(importPath) and the search in the
\* parsed file; `threw` tells that openTextDocument rejected
OpenImport(path, name) ==
  IF ~path.defined THEN [node |-> NoNode, threw |-> FALSE, opened |-> ""]
  ELSE IF ~path.exists THEN [node |-> NoNode, threw |-> TRUE, opened |-> ""]
  ELSE ExportedNode(path.file, FindExportedDeclaration(path.file, name))

\* The import lookup shared by the resolvers: findImportDeclaration,
\* resolveImportPath, openTextDocument, createSourceFile,
\* findExportedDeclaration
ImportLookup(f, name) ==
  IF FindImportDeclaration(f, name) = 0
  THEN [node |-> NoNode, threw |-> FALSE, opened |-> ""]
  ELSE OpenImport(
         ResolveImportPath(world[f].imports[FindImportDeclaration(f, name)]),
         name)

\* literal.getText(sourceFile).replace(/"/g, ""): the text with its quote
\* characters, double quotes removed
StripDoubleQuotes(quote, text) ==
  IF quote = "\"" THEN text ELSE quote \o text \o quote

\* node.getText(sourceFile) cuts the node's range out of sourceFile.text: it
\* is the node's text only if sourceFile is the file the node belongs to;
\* GarbledText stands for the unrelated substring it yields otherwise
GarbledText == "<text of another file>"

GetText(nodeFile, sourceFile, text) ==
  IF nodeFile = sourceFile THEN text ELSE GarbledText

RECURSIVE MapLiterals(_, _, _)
MapLiterals(nodeFile, sourceFile, members) ==
  IF members = <<>> THEN <<>>
  ELSE LET m == Head(members) IN
       (IF m.lit
        THEN <<GetText(nodeFile, sourceFile, StripDoubleQuotes(m.quote, m.text))>>
        ELSE <<>>)
         \o MapLiterals(nodeFile, sourceFile, Tail(members))

\* the union branch of extractStringLiteralsFromType / extractFromTypeNode:
\* types.filter(string literal types)
\*   .map((t) => t.literal.getText(sourceFile).replace(/"/g, ""))
UnionLiterals(nodeFile, sourceFile, type) ==
  MapLiterals(nodeFile, sourceFile, type.members)

-----------------------------------------------------------------------------
(* src/src/resolvers/value-extractor.ts *)

\* enum members: the string initializer's text, else the member name
RECURSIVE EnumValues(_, _, _)
EnumValues(nodeFile, sourceFile, members) ==
  IF members = <<>> THEN <<>>
  ELSE <<IF Head(members).hasInit THEN Head(members).text
         ELSE GetText(nodeFile, sourceFile,
                      Head(members).quote \o Head(members).name
                        \o Head(members).quote)>>
       \o EnumValues(nodeFile, sourceFile, Tail(members))

\* a variant that returns the property values instead of the property names
RECURSIVE ObjectValues(_, _, _)
ObjectValues(nodeFile, sourceFile, props) ==
  IF props = <<>> THEN <<>>
  ELSE (IF Head(props).kind = "assign"
        THEN <<GetText(nodeFile, sourceFile, Head(props).init.text)>>
        ELSE <<>>) \o ObjectValues(nodeFile, sourceFile, Tail(props))

\* properties.filter(ts.isPropertyAssignment)
\*   .map((prop) => prop.name.getText(sourceFile).replace(/"/g, ""))
RECURSIVE ObjectKeys(_, _, _)
ObjectKeys(nodeFile, sourceFile, props) ==
  IF props = <<>> THEN <<>>
  ELSE (IF Head(props).kind = "assign"
        THEN <<GetText(nodeFile, sourceFile,
                       StripDoubleQuotes(Head(props).quote, Head(props).name))>>
        ELSE <<>>) \o ObjectKeys(nodeFile, sourceFile, Tail(props))

\* findConstObjectDeclaration: the first variable named `name` whose
\* initializer is an object literal, bare or under an `as` expression
FindConstObjectDeclaration(f, name) ==
  FirstIndex({i \in 1..Len(Decls(f)) :
                /\ Decls(f)[i].kind = "var"
                /\ Decls(f)[i].name = name
                /\ \/ Decls(f)[i].init.k = "obj"
                   \/ Decls(f)[i].init.k = "as" /\ Decls(f)[i].init.ek = "obj"})

\* type.getText(sourceFile).match(/\(typeof\s+(\w+)\)\[keyof\s+typeof\s+\w+\]/)
TypeofMatch(nodeFile, sourceFile, type) ==
  nodeFile = sourceFile /\ type.k = "indexed" /\ type.paren

\* ts.isIndexedAccessTypeNode(typeNode) && ts.isTypeQueryNode(typeNode.objectType):
\* a parenthesized object type is a ParenthesizedType node, not a TypeQuery
IsIndexedTypeQuery(type) == type.k = "indexed" /\ ~type.paren

\* type.getText(sourceFile) of a type node, used as a type name; only the
\* text of a type reference can be the name of a declaration
TypeText(nodeFile, sourceFile, type) ==
  IF type.k = "ref" THEN GetText(nodeFile, sourceFile, type.text) ELSE ""

\* one active call extractValuesFromDeclaration(declaration, sourceFile, document):
\* the declaration is node (f, i); doc is "" when document is undefined; ph is
\* the position inside the call
Frame(f, i, sf, doc, ph) == [f |-> f, i |-> i, sf |-> sf, doc |-> doc, ph |-> ph]

\* what a call does next: return `vals`, or call `child` and resume at `next`
Return(vals) == [act |-> "return", vals |-> vals,
                 child |-> Frame("", 0, "", "", ""), next |-> ""]

Call(child, next) == [act |-> "call", vals |-> <<>>, child |-> child,
                      next |-> next]


\* extractValuesFromDeclaration, lines 11-210 ------------------------------

\* lines 56-80: the declaration of the asserted type, in sourceFile, else
\* (when a document was passed) through an import; a throw is caught
V1TypeDeclaration(fr, typeName) ==
  IF FindDeclarationInFile(fr.sf, typeName) # 0
  THEN Node(fr.sf, FindDeclarationInFile(fr.sf, typeName))
  ELSE IF fr.doc = "" THEN NoNode
  ELSE ImportLookup(fr.sf, typeName).node

\* lines 93-100 and the fall through to `return []`
V1AfterAssertedType(d) ==
  IF d.init.ek = "str" THEN Return(<<d.init.text>>) ELSE Return(<<>>)

\* lines 82-91
V1AssertedType(fr, d, typeDecl) ==
  IF typeDecl # NoNode
  THEN Call(Frame(typeDecl.f, typeDecl.i, typeDecl.f, fr.doc, "enter"),
            "assertedType")
  ELSE V1AfterAssertedType(d)

\* typescript-helpers.ts 143-154: typeof X[keyof typeof X]
V1IndexedObject(fr, objectDecl, resume) ==
  IF objectDecl # 0
  THEN Call(Frame(fr.sf, objectDecl, fr.sf, "", "enter"), resume)
  ELSE Return(<<>>)

\* lines 137-143: extractStringLiteralsFromType(declaration.type, sourceFile,
\* extractValuesFromDeclaration) (typescript-helpers.ts 126-157)
V1StringLiteralsFromType(fr, type, resume) ==
  IF type.k = "union" THEN Return(UnionLiterals(fr.f, fr.sf, type))
  ELSE IF IsIndexedTypeQuery(type)
       THEN V1IndexedObject(fr, FindDeclarationInFile(fr.sf, type.obj), resume)
       ELSE Return(<<>>)

\* lines 119-134
V1TypeofObject(fr, d, objectDecl) ==
  IF objectDecl # 0
  THEN Call(Frame(fr.sf, objectDecl, fr.sf, fr.doc, "enter"), "typeofObject")
  ELSE V1StringLiteralsFromType(fr, d.type, "indexedObject")

\* lines 152-183: the declaration of a property signature's type with the
\* source file and the document that go with it
V1PropertyTypeImported(fr, imported) ==
  IF imported.node # NoNode
  THEN [node |-> imported.node, sf |-> imported.node.f, doc |-> imported.node.f]
  ELSE [node |-> NoNode, sf |-> fr.sf, doc |-> fr.doc]

V1PropertyTypeDecl(fr, typeName) ==
  IF FindDeclarationInFile(fr.sf, typeName) # 0
  THEN [node |-> Node(fr.sf, FindDeclarationInFile(fr.sf, typeName)),
        sf |-> fr.sf, doc |-> fr.doc]
  ELSE IF fr.doc = "" THEN [node |-> NoNode, sf |-> fr.sf, doc |-> fr.doc]
  ELSE V1PropertyTypeImported(fr, ImportLookup(fr.sf, typeName))

\* lines 197-209
V1AfterPropertyType(fr, d) ==
  IF d.type.k = "union" THEN Return(UnionLiterals(fr.f, fr.sf, d.type))
  ELSE Return(<<>>)

\* lines 185-195
V1PropertyType(fr, d, t) ==
  IF t.node # NoNode
  THEN Call(Frame(t.node.f, t.node.i, t.sf, t.doc, "enter"), "propertyType")
  ELSE V1AfterPropertyType(fr, d)

\* the call `fr` on entry, d being its declaration
V1Enter(fr, d) ==
  IF d.kind = "enum" THEN Return(EnumValues(fr.f, fr.sf, d.members))
  ELSE IF d.kind = "var" /\ d.init.k # "none" THEN
    IF d.init.k = "obj" THEN Return(ObjectKeys(fr.f, fr.sf, d.init.props))
    ELSE IF d.init.k = "as" /\ d.init.ek = "obj"
      THEN Return(ObjectKeys(fr.f, fr.sf, d.init.props))
    ELSE IF d.init.k = "as"
      THEN V1AssertedType(
             fr, d, V1TypeDeclaration(fr, GetText(fr.f, fr.sf, d.init.type)))
    ELSE IF d.init.k = "str" THEN Return(<<d.init.text>>)
    ELSE Return(<<>>)
  ELSE IF d.kind = "alias" THEN
    V1TypeofObject(fr, d,
                   IF TypeofMatch(fr.f, fr.sf, d.type)
                   THEN FindConstObjectDeclaration(fr.sf, d.type.obj)
                   ELSE 0)
  ELSE IF d.kind = "propsig" /\ d.type.k # "none" THEN
    V1PropertyType(fr, d, V1PropertyTypeDecl(fr, TypeText(fr.f, fr.sf, d.type)))
  ELSE Return(<<>>)

\* the call `fr` resumed, `ret` being what its inner call returned
V1Resume(fr, d, ret) ==
  IF fr.ph = "assertedType" THEN
    IF Len(ret) > 0 THEN Return(ret) ELSE V1AfterAssertedType(d)
  ELSE IF fr.ph = "typeofObject" THEN
    IF Len(ret) > 0 THEN Return(ret)
    ELSE V1StringLiteralsFromType(fr, d.type, "indexedObject")
  ELSE IF fr.ph = "indexedObject" THEN Return(ret)
  ELSE \* "propertyType"
    IF Len(ret) > 0 THEN Return(ret) ELSE V1AfterPropertyType(fr, d)

\* the next step of the call `fr`, `ret` being what its last inner call
\* returned
V1Decide(fr, ret) ==
  IF fr.ph = "enter" THEN V1Enter(fr, DeclAt(fr.f, fr.i))
  ELSE V1Resume(fr, DeclAt(fr.f, fr.i), ret)

\* extractValuesFromDeclaration, lines 527-566 (the refactored extractor) ---

\* extractFromVariableDeclaration, lines 585-611
ExtractFromVariableDeclaration(f, sf, d) ==
  IF d.init.k = "obj" THEN ObjectKeys(f, sf, d.init.props)
  ELSE IF d.init.k = "as" /\ d.init.ek = "obj" THEN ObjectKeys(f, sf, d.init.props)
  ELSE IF d.init.k = "str" THEN <<d.init.text>>
  ELSE <<>>

\* extractFromTypeNode, lines 680-699
ExtractFromTypeNode(f, sf, type) ==
  IF type.k = "union" THEN UnionLiterals(f, sf, type)
  ELSE IF type.k = "literal" THEN <<type.text>>
  ELSE <<>>

\* extractFromTypeAlias, lines 628-639: the values of the const object
TypeofObjectValues(sf, objectDecl) ==
  IF objectDecl # 0
  THEN ExtractFromVariableDeclaration(sf, sf, DeclAt(sf, objectDecl))
  ELSE <<>>

\* extractFromTypeAlias, lines 616-644
ExtractFromTypeAlias(fr, d, values) ==
  IF Len(values) > 0 THEN values
  ELSE ExtractFromTypeNode(fr.f, fr.sf, d.type)

\* lines 669-674
V3AfterPropertyType(fr, d) ==
  IF d.type.k = "union" THEN Return(ExtractFromTypeNode(fr.f, fr.sf, d.type))
  ELSE Return(<<>>)

\* extractFromPropertySignature, lines 649-667; findDeclaration (lines
\* 760-793) is the locator restricted to the file
V3PropertyType(fr, d, typeDecl) ==
  IF typeDecl # 0
  THEN Call(Frame(fr.sf, typeDecl, fr.sf, fr.doc, "enter"), "propertyType")
  ELSE V3AfterPropertyType(fr, d)

V3Enter(fr, d) ==
  IF d.kind = "enum" THEN Return(EnumValues(fr.f, fr.sf, d.members))
  ELSE IF d.kind = "var" /\ d.init.k # "none"
    THEN Return(ExtractFromVariableDeclaration(fr.f, fr.sf, d))
  ELSE IF d.kind = "alias" THEN
    Return(ExtractFromTypeAlias(
             fr, d,
             TypeofObjectValues(
               fr.sf,
               IF TypeofMatch(fr.f, fr.sf, d.type)
               THEN FindConstObjectDeclaration(fr.sf, d.type.obj)
               ELSE 0)))
  ELSE IF d.kind = "propsig" /\ d.type.k # "none" THEN
    V3PropertyType(
      fr, d, FindDeclarationInFile(fr.sf, TypeText(fr.f, fr.sf, d.type)))
  ELSE IF d.kind = "param" /\ d.type.k # "none"
    THEN Return(ExtractFromTypeNode(fr.f, fr.sf, d.type))
  ELSE Return(<<>>)

V3Decide(fr, ret) ==
  IF fr.ph = "enter" THEN V3Enter(fr, DeclAt(fr.f, fr.i))
  ELSE \* "propertyType"
    IF Len(ret) > 0 THEN Return(ret)
    ELSE V3AfterPropertyType(fr, DeclAt(fr.f, fr.i))

\* value-extractor.ts defines extractValuesFromDeclaration at lines 11-210
\* ("v1") and again at lines 527-566 ("v3"); impl tells which one is bound
Decide(fr, ret) == IF impl = "v1" THEN V1Decide(fr, ret) ELSE V3Decide(fr, ret)

\* two calls with the same arguments
SameCall(a, b) == a.f = b.f /\ a.i = b.i /\ a.sf = b.sf /\ a.doc = b.doc

\* The call chain run to its end.  The function is deterministic in its
\* arguments, so a call nested inside a call with the same arguments recurses
\* without end: status "unbounded".
RECURSIVE RunFrom(_, _), RunStep(_, _)
RunFrom(stack, ret) ==
  IF stack = <<>> THEN [status |-> "ok", vals |-> ret]
  ELSE RunStep(stack, Decide(stack[Len(stack)], ret))

\* the active call takes the step `step`
RunStep(stack, step) ==
  IF step.act = "return"
  THEN RunFrom(SubSeq(stack, 1, Len(stack) - 1), step.vals)
  ELSE IF \E k \in 1..Len(stack) : SameCall(stack[k], step.child)
  THEN [status |-> "unbounded", vals |-> <<>>]
  ELSE RunFrom(Append([stack EXCEPT ![Len(stack)].ph = step.next],
                      step.child), <<>>)

\* await extractValuesFromDeclaration(declaration (f, i), sourceFile, document)
ExtractValuesFromDeclaration(f, i, sf, doc) ==
  RunFrom(<<Frame(f, i, sf, doc, "enter")>>, <<>>)

-----------------------------------------------------------------------------
(* extractValuesFromDeclaration as a machine: one action per call / return *)

\* the deepest chain of nested calls that is followed
MaxDepth == 4

ExTop == exStack[Len(exStack)]

\* the top-level call extractValuesFromDeclaration(request, its file, document)
ExtractStart ==
  /\ exPc = "idle"
  /\ exPc' = "run"
  /\ exStack' = <<Frame(request.f, request.i, request.f, "main", "enter")>>
  /\ entered' = <<request>>
  /\ UNCHANGED <<world, impl, request, exRet, exResult>>
  /\ UNCHANGED genVars
  /\ UNCHANGED rvVars
  /\ UNCHANGED decVars
  /\ UNCHANGED ipVars
  /\ UNCHANGED <<scVars, edVars, fdVars>>

\* the active call calls extractValuesFromDeclaration again
ExtractCall ==
  /\ exPc = "run" /\ exStack # <<>>
  /\ Len(exStack) < MaxDepth
  /\ LET step == Decide(ExTop, exRet) IN
       /\ step.act = "call"
       /\ exStack' = Append([exStack EXCEPT ![Len(exStack)].ph = step.next],
                            step.child)
       /\ entered' = Append(entered, Node(step.child.f, step.child.i))
  /\ exRet' = <<>>
  /\ UNCHANGED <<world, impl, request, exPc, exResult>>
  /\ UNCHANGED genVars
  /\ UNCHANGED rvVars
  /\ UNCHANGED decVars
  /\ UNCHANGED ipVars
  /\ UNCHANGED <<scVars, edVars, fdVars>>

\* the active call returns to its caller
ExtractReturn ==
  /\ exPc = "run" /\ exStack # <<>>
  /\ LET step == Decide(ExTop, exRet) IN
       /\ step.act = "return"
       /\ exRet' = step.vals
  /\ exStack' = SubSeq(exStack, 1, Len(exStack) - 1)
  /\ UNCHANGED <<world, impl, request, exPc, exResult, entered>>
  /\ UNCHANGED genVars
  /\ UNCHANGED rvVars
  /\ UNCHANGED decVars
  /\ UNCHANGED ipVars
  /\ UNCHANGED <<scVars, edVars, fdVars>>

\* the top-level call has returned
ExtractFinish ==
  /\ exPc = "run" /\ exStack = <<>>
  /\ exResult' = exRet
  /\ exPc' = "done"
  /\ UNCHANGED <<world, impl, request, exStack, exRet, entered>>
  /\ UNCHANGED genVars
  /\ UNCHANGED rvVars
  /\ UNCHANGED decVars
  /\ UNCHANGED ipVars
  /\ UNCHANGED <<scVars, edVars, fdVars>>

-----------------------------------------------------------------------------
(* The language-service oracle: vscode.commands.executeCommand              *)
(* A hover text is its sequence of tokens: words (\w+), other unquoted text *)
(* ending in a parenthesis such as "(property)", colons, equal signs,       *)
(* pipes, line ends, "double-quoted" and 'single-quoted' strings.           *)

W(v) == [t |-> "word", v |-> v]
P(v) == [t |-> "punct", v |-> v]
Str(v) == [t |-> "str", v |-> v]
SqStr(v) == [t |-> "sq", v |-> v]
Colon == [t |-> ":", v |-> ""]
Eq == [t |-> "=", v |-> ""]
Pipe == [t |-> "|", v |-> ""]
Nl == [t |-> "nl", v |-> ""]

\* an answer of the hover provider: no hover, a hover with a text, or a
\* rejected command
NoHover == [kind |-> "none", text |-> <<>>]
HoverText(text) == [kind |-> "text", text |-> text]
HoverThrows == [kind |-> "throws", text |-> <<>>]

\* an answer of the (type) definition provider: nothing, or a location whose
\* range starts in declaration i of file f (a file that may not exist) and
\* covers the whole declaration or only its name, or a rejected command
NoLocation == [kind |-> "none", f |-> "", i |-> 0, whole |-> FALSE]
Location(f, i, whole) == [kind |-> "loc", f |-> f, i |-> i, whole |-> whole]
LocationThrows == [kind |-> "throws", f |-> "", i |-> 0, whole |-> FALSE]

\* hoverText.includes("loading")
IncludesLoading(text) == \E k \in 1..Len(text) : text[k] = P("(loading...)")

\* hoverText.includes(") any")
IncludesParenAny(text) ==
  \E k \in 1..Len(text) - 1 : text[k].t = "punct" /\ text[k + 1] = W("any")

IsStr(tok) == tok.t = "str"

RECURSIVE TokenValues(_)
TokenValues(toks) ==
  IF toks = <<>> THEN <<>> ELSE <<Head(toks).v>> \o TokenValues(Tail(toks))

\* hoverText.matchAll(/"([^"]+)"/g), the captured groups
QuotedMatches(text) == TokenValues(SelectSeq(text, IsStr))

\* hoverText.match(/:\s*"([^"]+)"/): the index of the colon, 0 if no match
ColonLiteralAt(text) ==
  FirstIndex({k \in 1..Len(text) - 1 :
                text[k] = Colon /\ text[k + 1].t = "str"})

\* hoverText.match(/:\s*(\w+)\s*$/m): the index of the colon, 0 if no match
TypeRefAt(text) ==
  FirstIndex({k \in 1..Len(text) - 1 :
                /\ text[k] = Colon
                /\ text[k + 1].t = "word"
                /\ (k + 1 = Len(text) \/ text[k + 2] = Nl)})

\* hoverText.match(/:\s*(\w+)/): the index of the colon, 0 if no match
TypeMatchAt(text) ==
  FirstIndex({k \in 1..Len(text) - 1 :
                text[k] = Colon /\ text[k + 1].t = "word"})

IsQuoted(tok) == tok.t \in {"str", "sq"}

\* the strings of the run  q (| q)*  that starts at token k
RECURSIVE QuotedRun(_, _)
QuotedRun(text, k) ==
  IF k > Len(text) \/ ~IsQuoted(text[k]) THEN <<>>
  ELSE <<text[k].v>> \o
       (IF k + 2 <= Len(text) /\ text[k + 1] = Pipe /\ IsQuoted(text[k + 2])
        THEN QuotedRun(text, k + 2) ELSE <<>>)

\* typeDefHoverText.match(/=\s*(["'][^"']+["'](?:\s*\|\s*["'][^"']+["'])+)/)
\* followed by unionStr.matchAll(/["']([^"']+)["']/g): the values, <<>> if
\* no match
InlineUnion(text) ==
  LET k == FirstIndex({j \in 1..Len(text) - 1 :
                         text[j] = Eq /\ Len(QuotedRun(text, j + 1)) > 1})
  IN IF k = 0 THEN <<>> ELSE QuotedRun(text, k + 1)

\* ['string', 'number', 'boolean', 'any', 'unknown', 'void', 'never',
\*  'Array', 'Promise'].includes(typeName)
PrimitiveNames == {"string", "number", "boolean", "any", "unknown", "void",
                   "never", "Array", "Promise"}

\* typeName.includes("Union") || typeName.includes("Enum") ||
\* typeName.includes("Type"), over the names that occur
NamesWithTypeWord == {"ExType", "ColorEnum", "SizeUnion", "Type"}

\* the "double-quoted" strings of a declaration's source text, in order
RECURSIVE QuotedInProps(_)
QuotedInProps(props) ==
  IF props = <<>> THEN <<>>
  ELSE LET p == Head(props) IN
       (IF p.kind = "assign" /\ p.quote = "\"" THEN <<p.name>> ELSE <<>>)
       \o (IF p.kind = "assign" /\ (p.init.k = "str" \/ p.init.ek = "str")
           THEN <<p.init.text>> ELSE <<>>)
       \o QuotedInProps(Tail(props))

RECURSIVE QuotedInMembers(_)
QuotedInMembers(members) ==
  IF members = <<>> THEN <<>>
  ELSE (IF Head(members).lit /\ Head(members).quote = "\""
        THEN <<Head(members).text>> ELSE <<>>)
       \o QuotedInMembers(Tail(members))

RECURSIVE QuotedInEnum(_)
QuotedInEnum(members) ==
  IF members = <<>> THEN <<>>
  ELSE (IF Head(members).quote = "\"" THEN <<Head(members).name>> ELSE <<>>)
       \o (IF Head(members).hasInit THEN <<Head(members).text>> ELSE <<>>)
       \o QuotedInEnum(Tail(members))

\* typeDefDoc.getText(typeDefRange).matchAll(/"([^"]+)"/g) for a range that
\* covers declaration d
QuotedInDecl(d) ==
  IF d.kind = "enum" THEN QuotedInEnum(d.members)
  ELSE (IF d.type.k = "union" THEN QuotedInMembers(d.type.members)
        ELSE IF d.type.k = "literal" THEN <<d.type.text>>
        ELSE <<>>)
       \o (IF d.init.k = "str" \/ (d.init.k = "as" /\ d.init.ek = "str")
           THEN <<d.init.text>>
           ELSE IF d.init.k = "obj" \/ (d.init.k = "as" /\ d.init.ek = "obj")
           THEN QuotedInProps(d.init.props)
           ELSE <<>>)

-----------------------------------------------------------------------------
(* src/src/resolvers/variable-resolver.ts: the strategies of resolveVariable *)
(* The document is file "main".  A strategy yields                          *)
(*   vals : the array it returns,                                           *)
(*   q    : the number of hover queries issued at the position so far,      *)
(*   fate : "ok", or "raised" if an exception leaves the strategy,          *)
(*   hang : an extraction it awaits recurses without end; the engine then   *)
(*          either overflows its stack (a RangeError, which a surrounding   *)
(*          try catches and which otherwise leaves the strategy) or never   *)
(*          settles the promise.                                            *)

Yield(vals, q) == [vals |-> vals, q |-> q, fate |-> "ok", hang |-> FALSE]

Raise(q) == [vals |-> <<>>, q |-> q, fate |-> "raised", hang |-> FALSE]

\* the result of an awaited extraction that no try surrounds
Uncaught(r, q) ==
  IF r.status = "ok" THEN Yield(r.vals, q)
  ELSE [vals |-> <<>>, q |-> q, fate |-> "raised", hang |-> TRUE]

\* the result of an awaited extraction inside a try whose catch returns []
Caught(r, q) ==
  IF r.status = "ok" THEN Yield(r.vals, q)
  ELSE [vals |-> <<>>, q |-> q, fate |-> "ok", hang |-> TRUE]

Document == "main"

\* the n-th hover query at the position of the variable
HoverAnswer(n) == oracle.hover[Min(n, Len(oracle.hover))]

IsDotted(expr) == Len(expr) > 1

\* the expression as text: its names joined by "."
RECURSIVE ExprText(_)
ExprText(expr) ==
  IF Len(expr) = 1 THEN expr[1]
  ELSE expr[1] \o "." \o ExprText(Tail(expr))

\* a name declared locally, else through an import; the lookup is inside a
\* try, so a file that cannot be opened counts as not found
LocalElseImported(f, name) ==
  IF FindDeclarationInFile(f, name) # 0
  THEN Node(f, FindDeclarationInFile(f, name))
  ELSE ImportLookup(f, name).node

\* typescript-helpers.ts 376-418: whether import statement imp leads to a
\* file that declares typeName
ImportDeclares(imp, typeName) ==
  /\ ResolveImportPath(imp).defined
  /\ ResolveImportPath(imp).exists
  /\ FindExportedDeclaration(ResolveImportPath(imp).file, typeName) # 0

ScannedNode(file, typeName) ==
  Node(file, FindExportedDeclaration(file, typeName))

\* the first such import statement, 0 if none
ScanHit(imps, typeName) ==
  FirstIndex({k \in 1..Len(imps) : ImportDeclares(imps[k], typeName)})

ScanFound(imps, k, typeName) ==
  IF k = 0 THEN NoNode
  ELSE ScannedNode(ResolveImportPath(imps[k]).file, typeName)

\* typescript-helpers.ts 365-418: every local import statement is tried in
\* turn
ScanImports(typeName) ==
  ScanFound(world[Document].imports,
            ScanHit(world[Document].imports, typeName), typeName)

\* the inline callback at typescript-helpers.ts 473-481
InlineUnionOfAlias(f, i) ==
  IF DeclAt(f, i).kind = "alias" /\ DeclAt(f, i).type.k = "union"
  THEN UnionLiterals(f, f, DeclAt(f, i).type)
  ELSE <<>>

\* typescript-helpers.ts 466-486: extractStringLiteralsFromType with the
\* inline callback
ManualLiterals(f, d, indexed) ==
  IF d.type.k = "union" THEN UnionLiterals(f, f, d.type)
  ELSE IF indexed # 0 THEN InlineUnionOfAlias(f, indexed)
  ELSE <<>>

\* typescript-helpers.ts 442-464: the keys of the const object of the idiom
ManualKeys(f, objectDecl) ==
  IF objectDecl # 0 THEN ObjectKeys(f, f, DeclAt(f, objectDecl).init.props)
  ELSE <<>>

ManualKeysElseLiterals(f, d, keys) ==
  IF Len(keys) > 0 THEN keys
  ELSE ManualLiterals(f, d,
                      IF IsIndexedTypeQuery(d.type)
                      THEN FindDeclarationInFile(f, d.type.obj) ELSE 0)

\* typescript-helpers.ts 421-489: the values of the declaration found
ManualValues(f, d) ==
  IF d.kind # "alias" THEN <<>>
  ELSE ManualKeysElseLiterals(
         f, d,
         ManualKeys(f, IF TypeofMatch(f, f, d.type)
                       THEN FindConstObjectDeclaration(f, d.type.obj)
                       ELSE 0))

ManualValuesOf(typeDecl) ==
  IF typeDecl = NoNode THEN <<>>
  ELSE ManualValues(typeDecl.f, DeclAt(typeDecl.f, typeDecl.i))

\* typescript-helpers.ts 322-419: no type definition was offered, the type
\* named by the hover is looked up in the document, then in the import of
\* that name, and without such an import in every local import
ManualTypeDecl(typeName) ==
  IF FindDeclarationInFile(Document, typeName) # 0
  THEN Node(Document, FindDeclarationInFile(Document, typeName))
  ELSE IF FindImportDeclaration(Document, typeName) # 0
       THEN ImportLookup(Document, typeName).node
       ELSE ScanImports(typeName)

ManualTypeResolution(typeName) == ManualValuesOf(ManualTypeDecl(typeName))

\* typescript-helpers.ts 277-317: the hover and the text at the type
\* definition
TypeDefinitionValues(td, h) ==
  IF h.kind = "throws" THEN <<>>
  ELSE IF h.kind = "text" /\ Len(QuotedMatches(h.text)) > 1
       THEN QuotedMatches(h.text)
  ELSE IF h.kind = "text" /\ InlineUnion(h.text) # <<>>
       THEN InlineUnion(h.text)
  ELSE IF td.whole /\ Len(QuotedInDecl(DeclAt(td.f, td.i))) > 1
       THEN QuotedInDecl(DeclAt(td.f, td.i))
  ELSE <<>>

\* typescript-helpers.ts 254-321: the type definition provider is asked for
\* the type named by the hover
TypeRefResolution(typeName) ==
  IF oracle.typeDef.kind = "throws" THEN <<>>
  ELSE IF oracle.typeDef.kind = "none" THEN ManualTypeResolution(typeName)
  ELSE IF oracle.typeDef.f \notin FileIds THEN <<>>
  ELSE TypeDefinitionValues(oracle.typeDef, oracle.typeDefHover)

\* typescript-helpers.ts 225-252 and the dispatch to the type reference
UnionTypesFromText(text) ==
  IF IncludesLoading(text) \/ IncludesParenAny(text) THEN <<>>
  ELSE IF Len(QuotedMatches(text)) > 1 THEN QuotedMatches(text)
  ELSE IF ColonLiteralAt(text) # 0 THEN <<text[ColonLiteralAt(text) + 1].v>>
  ELSE IF TypeRefAt(text) # 0
       THEN LET typeName == text[TypeRefAt(text) + 1].v IN
            IF typeName \in PrimitiveNames THEN <<>>
            ELSE TypeRefResolution(typeName)
  ELSE <<>>

\* typescript-helpers.ts 205-223: the text that is parsed
RetriedText(a1, a2) == IF a2.kind = "text" THEN a2.text ELSE a1.text

UnionTypesAfterRetry(a1, a2, q) ==
  IF a2.kind = "throws" THEN Yield(<<>>, q)
  ELSE Yield(UnionTypesFromText(RetriedText(a1, a2)), q)

UnionTypesFromAnswer(a1, q) ==
  IF a1.kind # "text" THEN Yield(<<>>, q + 1)
  ELSE IF ~IncludesLoading(a1.text)
       THEN Yield(UnionTypesFromText(a1.text), q + 1)
  ELSE UnionTypesAfterRetry(a1, HoverAnswer(q + 2), q + 2)

\* extractUnionTypesFromPosition (typescript-helpers.ts 186-506): one hover
\* query, a second one after 100 ms if the first text says "loading"
ExtractUnionTypesFromPosition(q) ==
  UnionTypesFromAnswer(HoverAnswer(q + 1), q)

\* parseHoverForUnionTypes (436-452)
ParseHoverForUnionTypes(text) ==
  IF Len(QuotedMatches(text)) > 1 THEN QuotedMatches(text)
  ELSE IF ColonLiteralAt(text) # 0 THEN <<text[ColonLiteralAt(text) + 1].v>>
  ELSE <<>>

\* getTypeFromLanguageService, lines 149-169
LanguageServiceHover(a, q) ==
  IF a.kind # "text" THEN Yield(<<>>, q)
  ELSE Yield(ParseHoverForUnionTypes(a.text), q)

\* getTypeFromLanguageService (127-176): the type definition and completion
\* providers are queried first and their answers dropped
GetTypeFromLanguageService(q) ==
  IF oracle.typeDef.kind = "throws" THEN Yield(<<>>, q)
  ELSE LanguageServiceHover(HoverAnswer(q + 1), q + 1)

\* resolveTypeAssertion, lines 256-267
AssertedTypeValues(typeDecl, q) ==
  IF typeDecl = NoNode THEN Yield(<<>>, q)
  ELSE Uncaught(ExtractValuesFromDeclaration(
                  typeDecl.f, typeDecl.i, typeDecl.f, typeDecl.f), q)

\* resolveTypeAssertion, lines 199-254
AssertionOfDeclaration(d, q) ==
  IF d.kind # "var" \/ d.init.k # "as" THEN Yield(<<>>, q)
  ELSE AssertedTypeValues(
         LocalElseImported(Document, GetText(Document, Document, d.init.type)),
         q)

\* resolveTypeAssertion (178-276)
ResolveTypeAssertion(expr, q) ==
  IF FindDeclarationInFile(Document, ExprText(expr)) = 0 THEN Yield(<<>>, q)
  ELSE AssertionOfDeclaration(
         DeclAt(Document, FindDeclarationInFile(Document, ExprText(expr))), q)

\* getTypeFromHover, lines 339-354
HoverExtracted(text, r, q) ==
  IF r.status # "ok" THEN Caught(r, q)
  ELSE IF Len(r.vals) > 0 THEN Yield(r.vals, q)
  ELSE Yield(ParseHoverForUnionTypes(text), q)

HoverTypeValues(text, typeDecl, q) ==
  IF typeDecl = NoNode THEN Yield(ParseHoverForUnionTypes(text), q)
  ELSE HoverExtracted(
         text,
         ExtractValuesFromDeclaration(
           typeDecl.f, typeDecl.i, typeDecl.f, typeDecl.f),
         q)

\* getTypeFromHover, lines 309-337; nothing inside the try is guarded on its
\* own, so a file that cannot be opened ends the strategy with []
HoverTypeDecl(text, local, imported, q) ==
  IF local = 0 /\ imported.threw THEN Yield(<<>>, q)
  ELSE HoverTypeValues(
         text, IF local # 0 THEN Node(Document, local) ELSE imported.node, q)

\* getTypeFromHover, lines 294-307
HoverTypeName(text, k, q) ==
  IF k = 0 THEN Yield(ParseHoverForUnionTypes(text), q)
  ELSE IF text[k + 1].v \notin NamesWithTypeWord
       THEN Yield(ParseHoverForUnionTypes(text), q)
  ELSE HoverTypeDecl(text,
                     FindDeclarationInFile(Document, text[k + 1].v),
                     ImportLookup(Document, text[k + 1].v), q)

HoverType(a, q) ==
  IF a.kind # "text" THEN Yield(<<>>, q)
  ELSE HoverTypeName(a.text, TypeMatchAt(a.text), q)

\* getTypeFromHover (278-360)
GetTypeFromHover(q) == HoverType(HoverAnswer(q + 1), q + 1)

\* resolvePropertyValue, lines 304-317
AssertedPropertyExtracted(prop, r, q) ==
  IF r.status # "ok" THEN Uncaught(r, q)
  ELSE IF Len(r.vals) > 0 THEN Yield(r.vals, q)
  ELSE IF prop.init.ek = "str" THEN Yield(<<prop.init.text>>, q)
  ELSE Yield(<<>>, q)

\* resolvePropertyValue, lines 269-317: the property is `x as T`
AssertedProperty(prop, typeDecl, q) ==
  IF typeDecl = NoNode
  THEN Yield(IF prop.init.ek = "str" THEN <<prop.init.text>> ELSE <<>>, q)
  ELSE AssertedPropertyExtracted(
         prop,
         ExtractValuesFromDeclaration(
           typeDecl.f, typeDecl.i, typeDecl.f, typeDecl.f),
         q)

\* resolvePropertyValue, lines 319-330: the property is an identifier
ReferencedProperty(sf, referencedDecl, q) ==
  IF referencedDecl # 0
  THEN Uncaught(ExtractValuesFromDeclaration(sf, referencedDecl, sf, sf), q)
  ELSE Yield(<<>>, q)

\* resolvePropertyValue (value-extractor.ts 260-333)
ResolvePropertyValue(prop, sf, q) ==
  IF prop.init.k = "as"
  THEN AssertedProperty(
         prop, LocalElseImported(sf, GetText(sf, sf, prop.init.type)), q)
  ELSE IF prop.init.k = "ident"
  THEN ReferencedProperty(sf, FindDeclarationInFile(sf, prop.init.text), q)
  ELSE IF prop.init.k = "str" THEN Yield(<<prop.init.text>>, q)
  ELSE Yield(<<>>, q)

\* resolvePropertyAccess, lines 534-549: the property named parts[1] of the
\* object literal, an assignment whose name is an identifier
PropertyNamed(props, property, sf, q) ==
  IF property = 0 THEN Yield(<<>>, q)
  ELSE ResolvePropertyValue(props[property], sf, q)

PropertyByInitializer(expr, objF, d, q) ==
  IF d.init.k = "obj"
  THEN PropertyNamed(
         d.init.props,
         FirstIndex({k \in 1..Len(d.init.props) :
                       /\ d.init.props[k].kind = "assign"
                       /\ d.init.props[k].quote = ""
                       /\ d.init.props[k].name = expr[2]}),
         objF, q)
  ELSE Yield(<<>>, q)

\* resolvePropertyAccess, lines 501-531: the object has a declared type.
\* The import of that type is opened outside of any try, and the
\* declaration found is extracted with the object's source file.
PropertyByDeclaredType(expr, objF, d, localType, importedType, q) ==
  IF localType # 0
  THEN Uncaught(ExtractValuesFromDeclaration(objF, localType, objF, objF), q)
  ELSE IF importedType.threw THEN Raise(q)
  ELSE IF importedType.node # NoNode
  THEN Uncaught(ExtractValuesFromDeclaration(
                  importedType.node.f, importedType.node.i, objF, objF), q)
  ELSE PropertyByInitializer(expr, objF, d, q)

\* resolvePropertyAccess, lines 493-531
PropertyOfDeclaration(expr, objF, d, q) ==
  IF d.kind # "var" \/ d.init.k = "none" THEN Yield(<<>>, q)
  ELSE IF d.type.k # "none"
  THEN PropertyByDeclaredType(
         expr, objF, d,
         FindDeclarationInFile(objF, TypeText(objF, objF, d.type)),
         ImportLookup(objF, TypeText(objF, objF, d.type)), q)
  ELSE PropertyByInitializer(expr, objF, d, q)

PropertyOfObject(expr, objectDecl, q) ==
  IF objectDecl = NoNode THEN Yield(<<>>, q)
  ELSE PropertyOfDeclaration(
         expr, objectDecl.f, DeclAt(objectDecl.f, objectDecl.i), q)

\* resolvePropertyAccess (454-552); the import of the object is opened
\* inside a try (469-488)
ResolvePropertyAccess(expr, q) ==
  PropertyOfObject(expr, LocalElseImported(Document, expr[1]), q)

\* extractValuesFromNode (typescript-helpers.ts 159-184): the node and its
\* ancestors are tried in turn; only declarations can yield values
RECURSIVE ExtractValuesFromNode(_, _), NodeOrParent(_, _, _)
ExtractValuesFromNode(f, i) ==
  IF i = 0 THEN [status |-> "ok", vals |-> <<>>]
  ELSE NodeOrParent(f, i, ExtractValuesFromDeclaration(f, i, f, f))

\* lines 176-180: values of the node, else on to node.parent
NodeOrParent(f, i, r) ==
  IF r.status # "ok" \/ Len(r.vals) > 0 THEN r
  ELSE ExtractValuesFromNode(f, DeclAt(f, i).parent)

\* extractValuesFromTypeLocation (399-434)
ExtractValuesFromTypeLocation(loc) ==
  IF loc.kind # "loc" \/ loc.f \notin FileIds
  THEN [status |-> "ok", vals |-> <<>>]
  ELSE ExtractValuesFromNode(loc.f, loc.i)

\* tryLanguageServerProviders, lines 378-391: the definition provider
FromDefinitions(fromTypeDef, fromDef, q) ==
  IF oracle.definition.kind = "throws"
  THEN [Yield(<<>>, q) EXCEPT !.hang = fromTypeDef.status # "ok"]
  ELSE [Caught(fromDef, q) EXCEPT
          !.hang = fromTypeDef.status # "ok" \/ fromDef.status # "ok"]

\* tryLanguageServerProviders, lines 366-376: the type definition provider
FromTypeDefinitions(fromTypeDef, q) ==
  IF oracle.typeDef.kind = "throws" THEN Yield(<<>>, q)
  ELSE IF Len(fromTypeDef.vals) > 0 THEN Yield(fromTypeDef.vals, q)
  ELSE FromDefinitions(
         fromTypeDef, ExtractValuesFromTypeLocation(oracle.definition), q)

\* tryLanguageServerProviders (362-397)
TryLanguageServerProviders(q) ==
  FromTypeDefinitions(ExtractValuesFromTypeLocation(oracle.typeDef), q)

\* resolveFromLocalScope (554-564)
ResolveFromLocalScope(expr, q) ==
  IF FindDeclarationInFile(Document, ExprText(expr)) = 0 THEN Yield(<<>>, q)
  ELSE Uncaught(ExtractValuesFromDeclaration(
                  Document, FindDeclarationInFile(Document, ExprText(expr)),
                  Document, Document), q)

\* resolveFromImports, lines 593-599
ImportedValues(exportedDecl, q) ==
  IF exportedDecl = NoNode THEN Yield(<<>>, q)
  ELSE Caught(ExtractValuesFromDeclaration(
                exportedDecl.f, exportedDecl.i, exportedDecl.f, exportedDecl.f),
              q)

\* resolveFromImports (566-603)
ResolveFromImports(expr, q) ==
  ImportedValues(ImportLookup(Document, ExprText(expr)).node, q)

-----------------------------------------------------------------------------
(* resolveVariable (17-125) as a machine: one action per strategy *)

\* a variant that tries property access before every oracle strategy
PropertyAccessFirst ==
  <<"propertyAccess", "unionFromPosition", "languageService", "typeAssertion",
    "hover", "languageServer", "localScope", "imports">>

\* a variant that tries the imports before the local scope
ImportsBeforeLocalScope ==
  <<"unionFromPosition", "languageService", "typeAssertion", "hover",
    "propertyAccess", "languageServer", "imports", "localScope">>

\* the order in which resolveVariable calls its strategies
StrategyOrder ==
  <<"unionFromPosition", "languageService", "typeAssertion", "hover",
    "propertyAccess", "languageServer", "localScope", "imports">>

AtStrategy(name) ==
  /\ outcome = "running"
  /\ rvIdx <= Len(StrategyOrder)
  /\ StrategyOrder[rvIdx] = name

\* the condition of resolveVariable does not hold, the call is not made;
\* past the last strategy the function returns what it has, the empty array
SkipStrategy ==
  /\ rvIdx' = rvIdx + 1
  /\ outcome' = IF rvIdx = Len(StrategyOrder) THEN "returned" ELSE outcome
  /\ UNCHANGED <<result, trace, hoverQueries>>

\* the strategy `name` was awaited and yielded r
Invoke(name, r) ==
  /\ hoverQueries' = r.q
  /\ trace' = Append(trace, [name |-> name, vals |-> r.vals, q |-> r.q])
  /\ \/ /\ r.fate = "ok" /\ Len(r.vals) > 0
        /\ result' = r.vals
        /\ outcome' = "returned"
        /\ rvIdx' = rvIdx
     \/ /\ r.fate = "ok" /\ Len(r.vals) = 0
        /\ rvIdx' = rvIdx + 1
        /\ outcome' = IF rvIdx = Len(StrategyOrder) THEN "returned" ELSE outcome
        /\ UNCHANGED result
     \/ /\ r.fate = "raised"
        /\ outcome' = "raised"
        /\ UNCHANGED <<result, rvIdx>>
     \/ /\ r.hang
        /\ outcome' = "diverged"
        /\ UNCHANGED <<result, rvIdx>>

ResolveUnchanged ==
  /\ UNCHANGED <<varExpression, position, oracle, rvRun, firstResult>>
  /\ UNCHANGED exVars
  /\ UNCHANGED genVars
  /\ UNCHANGED decVars
  /\ UNCHANGED ipVars
  /\ UNCHANGED <<scVars, edVars, fdVars>>

\* lines 25-37
ResolveUnionFromPosition ==
  /\ AtStrategy("unionFromPosition")
  /\ IF position /\ IsDotted(varExpression)
     THEN Invoke("unionFromPosition", ExtractUnionTypesFromPosition(hoverQueries))
     ELSE SkipStrategy
  /\ ResolveUnchanged

\* lines 39-52
ResolveLanguageService ==
  /\ AtStrategy("languageService")
  /\ IF position
     THEN Invoke("languageService", GetTypeFromLanguageService(hoverQueries))
     ELSE SkipStrategy
  /\ ResolveUnchanged

\* lines 54-67
ResolveTypeAssertionStep ==
  /\ AtStrategy("typeAssertion")
  /\ Invoke("typeAssertion", ResolveTypeAssertion(varExpression, hoverQueries))
  /\ ResolveUnchanged

\* lines 69-80
ResolveHover ==
  /\ AtStrategy("hover")
  /\ IF position /\ IsDotted(varExpression)
     THEN Invoke("hover", GetTypeFromHover(hoverQueries))
     ELSE SkipStrategy
  /\ ResolveUnchanged

\* lines 82-94
ResolvePropertyAccessStep ==
  /\ AtStrategy("propertyAccess")
  /\ IF IsDotted(varExpression)
     THEN Invoke("propertyAccess", ResolvePropertyAccess(varExpression, hoverQueries))
     ELSE SkipStrategy
  /\ ResolveUnchanged

\* lines 96-108
ResolveLanguageServer ==
  /\ AtStrategy("languageServer")
  /\ IF position
     THEN Invoke("languageServer", TryLanguageServerProviders(hoverQueries))
     ELSE SkipStrategy
  /\ ResolveUnchanged

\* lines 110-118
ResolveLocalScope ==
  /\ AtStrategy("localScope")
  /\ Invoke("localScope", ResolveFromLocalScope(varExpression, hoverQueries))
  /\ ResolveUnchanged

\* lines 120-124
ResolveImports ==
  /\ AtStrategy("imports")
  /\ Invoke("imports", ResolveFromImports(varExpression, hoverQueries))
  /\ ResolveUnchanged

-----------------------------------------------------------------------------
(* Idle values *)

\* no file parsed, no extraction requested
EmptyWorld == [f \in FileIds |-> SourceFile(<<>>, <<>>)]

ExIdle ==
  /\ world = EmptyWorld
  /\ impl = "v1"
  /\ request = NoNode
  /\ exStack = <<>>
  /\ exRet = <<>>
  /\ exPc = "off"
  /\ exResult = <<>>
  /\ entered = <<>>

GenIdle ==
  /\ templateParts = <<>>
  /\ variableValues = <<>>
  /\ genStack = <<>>
  /\ results = <<>>
  /\ genPc = "off"
  /\ output = <<>>

-----------------------------------------------------------------------------
(* Inputs of extractValuesFromDeclaration: the files it can be given *)

\* { A: "a", "B": "b" }
TwoProps == <<Prop("", "A", StrInit("a")), Prop("\"", "B", StrInit("b"))>>

\* "x" | 'y' | number
XYUnion == UnionType(<<Lit("\"", "x"), Lit("'", "y"), NonLit("number")>>)

\* the declarations a document is written from
DeclCatalog ==
  { EnumDecl("T", <<EnumMember("A", TRUE, "a"), EnumMember("B", FALSE, "")>>),
    \* enum T { "C-D", A = "a", B = "a" }
    EnumDecl("T", <<QuotedEnumMember("\"", "C-D", FALSE, ""),
                    EnumMember("A", TRUE, "a"), EnumMember("B", TRUE, "a")>>),
    \* const X = { 'A': "a", B: "b" }
    VarDecl("X", NoType, ObjInit(<<Prop("'", "A", StrInit("a")),
                                   Prop("", "B", StrInit("b"))>>)),
    VarDecl("X", NoType, ObjInit(TwoProps)),
    VarDecl("X", NoType, AsInit(ObjInit(TwoProps), "const")),
    VarDecl("X", NoType, ObjInit(<<ShorthandProp("A")>>)),
    VarDecl("X", NoType, AsInit(StrInit("q"), "T")),
    VarDecl("X", TypeRef("T"), NoInit),
    VarDecl("v", NoType, AsInit(StrInit("q"), "T")),
    VarDecl("v", NoType, AsInit(StrInit("q"), "v")),
    VarDecl("v", NoType, AsInit(IdentInit("X"), "T")),
    VarDecl("x", NoType, AsInit(StrInit("q"), "y")),
    AliasDecl("T", XYUnion),
    AliasDecl("T", IndexedTypeof(TRUE, "X")),
    AliasDecl("T", IndexedTypeof(FALSE, "X")),
    AliasDecl("T", IndexedTypeof(FALSE, "T")),
    AliasDecl("T", LiteralType("x")),
    PropSig("p", TypeRef("T")),
    PropSig("p", TypeRef("y")),
    PropSig("p", XYUnion),
    ParamDecl("p", XYUnion) }

\* a document of one declaration or of two
DeclLists == {<<a>> : a \in DeclCatalog} \cup (DeclCatalog \X DeclCatalog)

\* the document exports its top-level variables, so that a module importing
\* it finds them
MainFiles(imports) ==
  {SourceFile([i \in 1..Len(ds) |->
                 IF ds[i].kind = "var" THEN Exported(ds[i]) ELSE ds[i]],
              imports) : ds \in DeclLists}

ImportY(relative, target) == <<ImportDecl({"y"}, relative, target)>>

\* ./lib as it is on disk, exporting a union `y`
LibUnion == SourceFile(<<Exported(AliasDecl("y", XYUnion))>>, <<>>)

\* ./lib exporting a `y` that is asserted to the document's `x`, imported
\* back from ./main
LibCycle ==
  SourceFile(<<Exported(VarDecl("y", NoType, AsInit(StrInit("r"), "x")))>>,
             <<ImportDecl({"x"}, TRUE, "main")>>)

\* the import statements of the document and the ./lib they meet on disk:
\* no import; `y` from ./lib; `y` from a path nothing exists at; `y` from a
\* package
ImportScenarios ==
  { [imports |-> <<>>, lib |-> LibUnion],
    [imports |-> ImportY(TRUE, "lib"), lib |-> LibUnion],
    [imports |-> ImportY(TRUE, "lib"), lib |-> LibCycle],
    [imports |-> ImportY(TRUE, "missing"), lib |-> LibUnion],
    [imports |-> ImportY(FALSE, ""), lib |-> LibUnion] }

ExtractWorlds ==
  UNION {{[f \in FileIds |-> IF f = "main" THEN m ELSE s.lib] :
            m \in MainFiles(s.imports)} : s \in ImportScenarios}

Impls == {"v1", "v3"}

-----------------------------------------------------------------------------
(* Inputs of resolveVariable: documents, expressions, oracle answers *)

\* "l1" | "l2"
LibTUnion == UnionType(<<Lit("\"", "l1"), Lit("\"", "l2")>>)

\* the declarations a document is written from
ResolveCatalog ==
  { AliasDecl("T", XYUnion),
    AliasDecl("T", IndexedTypeof(TRUE, "X")),
    AliasDecl("ExType", XYUnion),
    EnumDecl("v", <<EnumMember("A", TRUE, "a"), EnumMember("B", FALSE, "")>>),
    VarDecl("X", NoType, ObjInit(TwoProps)),
    VarDecl("v", NoType, AsInit(StrInit("q"), "T")),
    VarDecl("v", NoType, AsInit(StrInit("q"), "v")),
    VarDecl("m", NoType,
            ObjInit(<<Prop("", "p", AsInit(StrInit("x"), "T")),
                      Prop("", "r", IdentInit("v"))>>)),
    VarDecl("m", TypeRef("T"), ObjInit(<<Prop("", "p", StrInit("a"))>>)),
    \* const m = { "p": "a" }
    VarDecl("m", NoType, ObjInit(<<Prop("\"", "p", StrInit("a"))>>)) }

\* type T = { p: "x" | 'y' | number }: the property signature is a child of
\* the alias
AliasWithMember ==
  <<AliasDecl("T", [NoType EXCEPT !.k = "typelit"]),
    [PropSig("p", XYUnion) EXCEPT !.parent = 1]>>

\* type T = { p: "x" | 'y' | number }; const m: T = { p: "a" }
TypedObject ==
  AliasWithMember
    \o <<VarDecl("m", TypeRef("T"), ObjInit(<<Prop("", "p", StrInit("a"))>>))>>

ResolveDeclLists ==
  {<<>>, AliasWithMember, TypedObject}
    \cup {<<a>> : a \in ResolveCatalog}
    \cup (ResolveCatalog \X ResolveCatalog)

\* ./lib as it is on disk
LibResolve ==
  SourceFile(<<Exported(AliasDecl("T", LibTUnion)),
               Exported(VarDecl("v", NoType, StrInit("lv"))),
               Exported(VarDecl("m", NoType,
                                ObjInit(<<Prop("", "p", StrInit("lp"))>>)))>>,
             <<>>)

\* the import statements of the document: none; T, v and m from ./lib; the
\* same from a path nothing exists at; the same from a package
DocumentImports ==
  { <<>>,
    <<ImportDecl({"T", "v", "m"}, TRUE, "lib")>>,
    <<ImportDecl({"T", "v", "m"}, TRUE, "missing")>>,
    <<ImportDecl({"T", "v", "m"}, FALSE, "")>> }

ResolveWorlds ==
  {[f \in FileIds |-> IF f = "main" THEN SourceFile(ds, imports)
                      ELSE LibResolve] :
     ds \in ResolveDeclLists, imports \in DocumentImports}

\* v, m.p, m.r and m.p.length
Expressions == {<<"v">>, <<"m", "p">>, <<"m", "r">>, <<"m", "p", "length">>}

\* (property) p: "h1" | "h2"
HUnion == <<P("(property)"), W("p"), Colon, Str("h1"), Pipe, Str("h2")>>

\* const v: "h1"
HLiteral == <<W("const"), W("v"), Colon, Str("h1")>>

\* const v: <name>
HRef(name) == <<W("const"), W("v"), Colon, W(name)>>

\* (loading...)
HLoading == <<P("(loading...)")>>

\* (alias) any
HAny == <<P("(alias)"), W("any")>>

\* type T = 'd1' | 'd2'
HInlineUnion == <<W("type"), W("T"), Eq, SqStr("d1"), Pipe, SqStr("d2")>>

Oracle(hover, typeDef, definition, typeDefHover) ==
  [hover |-> hover, typeDef |-> typeDef, definition |-> definition,
   typeDefHover |-> typeDefHover]

\* an oracle that knows nothing
Silent == Oracle(<<NoHover>>, NoLocation, NoLocation, NoHover)

Oracles ==
  { Silent,
    Oracle(<<HoverText(HUnion)>>, NoLocation, NoLocation, NoHover),
    Oracle(<<HoverText(HLoading), HoverText(HUnion)>>,
           NoLocation, NoLocation, NoHover),
    Oracle(<<HoverText(HLoading)>>, NoLocation, NoLocation, NoHover),
    Oracle(<<HoverText(HLiteral)>>, NoLocation, NoLocation, NoHover),
    Oracle(<<HoverText(HAny)>>, Location("main", 2, FALSE), NoLocation, NoHover),
    Oracle(<<HoverText(HRef("T"))>>, NoLocation, NoLocation, NoHover),
    Oracle(<<HoverText(HRef("T"))>>, Location("main", 1, TRUE),
           Location("main", 1, FALSE), HoverText(HInlineUnion)),
    Oracle(<<HoverText(HRef("T"))>>, Location("main", 1, TRUE),
           NoLocation, NoHover),
    Oracle(<<HoverText(HRef("string"))>>, NoLocation,
           Location("lib", 1, FALSE), NoHover),
    Oracle(<<HoverText(HRef("ExType"))>>, Location("missing", 1, TRUE),
           NoLocation, NoHover),
    Oracle(<<HoverThrows>>, LocationThrows, LocationThrows, HoverThrows) }

\* a location the oracle answers lies inside a declaration of its file
ValidLocation(loc) ==
  loc.kind = "loc" /\ loc.f \in FileIds => loc.i \in DOMAIN Decls(loc.f)

\* vscode.window.activeTextEditor === undefined
NoEditor == 0

\* `timeout` before the first setTimeout
NoTimeout == 0

\* scheduleUpdate has not been called
NoTrigger == [id |-> NoTimeout, at |-> 0, delay |-> 0]

FdIdle ==
  /\ fdName = ""
  /\ fdVersion = ""
  /\ fdDeclaration = 0
  /\ fdExported = 0
  /\ fdPc = "off"

ScIdle ==
  /\ spans = <<>>
  /\ scSpan = 0
  /\ scParts = <<>>
  /\ scPositions = <<>>
  /\ scPc = "off"

EdIdle ==
  /\ windowEditor = NoEditor
  /\ activeEditor = NoEditor
  /\ timeout = NoTimeout
  /\ timers = {}
  /\ now = 0
  /\ version = <<>>
  /\ running = {}
  /\ applied = <<>>
  /\ started = <<>>
  /\ lastTrigger = NoTrigger
  /\ edPc = "off"

IpIdle ==
  /\ importPath = [dots |-> "", stem |-> "", ext |-> ""]
  /\ disk = {}
  /\ ipCandidates = <<>>
  /\ ipStats = <<>>
  /\ ipPc = "off"
  /\ ipResult = ""

DecIdle ==
  /\ positions = <<>>
  /\ decGroup = 0
  /\ decPos = 0
  /\ decPart = 0
  /\ varValues = <<>>
  /\ decorations = <<>>
  /\ decPc = "off"
  /\ shown = <<>>
  /\ cancelled = FALSE

RvIdle ==
  /\ varExpression = <<>>
  /\ position = FALSE
  /\ oracle = Silent
  /\ rvIdx = 0
  /\ trace = <<>>
  /\ result = <<>>
  /\ outcome = "off"
  /\ hoverQueries = 0
  /\ rvRun = 0
  /\ firstResult = <<>>

InitExtract ==
  /\ world \in ExtractWorlds
  /\ impl \in Impls
  /\ request \in {Node("main", i) : i \in DOMAIN Decls("main")}
  /\ exStack = <<>>
  /\ exRet = <<>>
  /\ exPc = "idle"
  /\ exResult = <<>>
  /\ entered = <<>>
  /\ GenIdle
  /\ RvIdle
  /\ DecIdle
  /\ IpIdle
  /\ ScIdle
  /\ EdIdle
  /\ FdIdle

NextExtract ==
  \/ ExtractStart
  \/ ExtractCall
  \/ ExtractReturn
  \/ ExtractFinish

SpecExtract == InitExtract /\ [][NextExtract]_vars

\* resolveVariable(varExpression, position, document, sourceFile) is called;
\* without a position no oracle is consulted
InitResolve ==
  /\ world \in ResolveWorlds
  /\ impl = "v1"
  /\ request = NoNode
  /\ exStack = <<>>
  /\ exRet = <<>>
  /\ exPc = "off"
  /\ exResult = <<>>
  /\ entered = <<>>
  /\ varExpression \in Expressions
  /\ position \in BOOLEAN
  /\ oracle \in Oracles
  /\ position \/ oracle = Silent
  /\ ValidLocation(oracle.typeDef)
  /\ ValidLocation(oracle.definition)
  /\ rvIdx = 1
  /\ trace = <<>>
  /\ result = <<>>
  /\ outcome = "running"
  /\ hoverQueries = 0
  /\ rvRun = 1
  /\ firstResult = <<>>
  /\ GenIdle
  /\ DecIdle
  /\ IpIdle
  /\ ScIdle
  /\ EdIdle
  /\ FdIdle

NextResolve ==
  \/ ResolveUnionFromPosition
  \/ ResolveLanguageService
  \/ ResolveTypeAssertionStep
  \/ ResolveHover
  \/ ResolvePropertyAccessStep
  \/ ResolveLanguageServer
  \/ ResolveLocalScope
  \/ ResolveImports

SpecResolve == InitResolve /\ [][NextResolve]_vars

\* resolveVariable is called a second time with the same expression,
\* position, document and source file (output.ts 125-130, at the next
\* updateDecorations); the language service goes on answering where it was
ResolveAgain ==
  /\ rvRun = 1
  /\ outcome = "returned"
  /\ rvRun' = 2
  /\ firstResult' = result
  /\ rvIdx' = 1
  /\ trace' = <<>>
  /\ result' = <<>>
  /\ outcome' = "running"
  /\ UNCHANGED <<varExpression, position, oracle, hoverQueries>>
  /\ UNCHANGED exVars
  /\ UNCHANGED genVars
  /\ UNCHANGED decVars
  /\ UNCHANGED ipVars
  /\ UNCHANGED <<scVars, edVars, fdVars>>

NextResolveTwice ==
  \/ NextResolve
  \/ ResolveAgain

SpecResolveTwice == InitResolve /\ [][NextResolveTwice]_vars

-----------------------------------------------------------------------------
(* Inputs of generateCombinations *)

\* the largest resolved set handed to generateCombinations
MaxSetSize == 11

Digit == <<"0", "1", "2", "3", "4", "5", "6", "7", "8", "9">>

RECURSIVE NumStr(_)
NumStr(n) == IF n < 10 THEN Digit[n + 1]
             ELSE NumStr(n \div 10) \o Digit[(n % 10) + 1]

\* a resolved set of n pairwise distinct values for the variable `name`
ValuesOf(name, n) == [i \in 1..n |-> name \o NumStr(i)]

GenTemplates ==
  { <<>>,
    <<StaticPart("X."), VariablePart("m.exchangeType"), StaticPart(".Y")>>,
    <<StaticPart("p"), VariablePart("x"), StaticPart("-"), VariablePart("y"),
      StaticPart("")>>,
    <<StaticPart(""), VariablePart("x"), StaticPart(""), VariablePart("y"),
      StaticPart(""), VariablePart("z"), StaticPart("")>>,
    <<StaticPart(""), VariablePart("x"), StaticPart("/"), VariablePart("x"),
      StaticPart("")>> }

GenVarNames == {"x", "y", "z", "m.exchangeType"}

\* -1: the key is absent from the map; 0: mapped to the empty array
GenSizes == {-1, 0, 2, MaxValuesPerVariable, MaxSetSize}

VarNamesOf(parts) ==
  {parts[i].value : i \in {j \in 1..Len(parts) : parts[j].type = "variable"}}

GenMaps(parts) ==
  LET names == VarNamesOf(parts)
      sizings == [names -> GenSizes]
  IN { [n \in {m \in names : sz[m] >= 0} |-> ValuesOf(n, sz[n])] : sz \in sizings }

InitGen ==
  /\ templateParts \in GenTemplates
  /\ variableValues \in GenMaps(templateParts)
  /\ genStack = <<>>
  /\ results = <<>>
  /\ genPc = "idle"
  /\ output = <<>>
  /\ ExIdle
  /\ RvIdle
  /\ DecIdle
  /\ IpIdle
  /\ ScIdle
  /\ EdIdle
  /\ FdIdle

NextGen ==
  \/ GenCall
  \/ GenEmit
  \/ GenStatic
  \/ GenBranch
  \/ GenPlaceholder
  \/ GenReturn
  \/ GenFinish

SpecGen == InitGen /\ [][NextGen]_vars

-----------------------------------------------------------------------------
(* updateDecorations and buildDecorations (src/src/output.ts 55-139,       *)
(* src/unnamed/part_010 46-63).  resolveVariable and generateCombinations  *)
(* run as the machines above; buildDecorations awaits them.                *)

\* a variable part as findTemplateLiterals builds it: every variable part
\* carries a position
PositionedPart(expr) ==
  [type |-> "variable", value |-> ExprText(expr), position |-> TRUE]

\* one TemplateLiteralPosition; lineEndPosition is where the template ends
TemplateLiteralPosition(lineEnd, parts) ==
  [lineEndPosition |-> lineEnd, templateParts |-> parts]

\* the keys of the Map groupByLineEnd builds, in insertion order
RECURSIVE GroupKeys(_, _)
GroupKeys(ps, seen) ==
  IF ps = <<>> THEN <<>>
  ELSE IF Head(ps).lineEndPosition \in seen THEN GroupKeys(Tail(ps), seen)
  ELSE <<Head(ps).lineEndPosition>>
         \o GroupKeys(Tail(ps), seen \cup {Head(ps).lineEndPosition})

\* map.get(key): the positions pushed under the key, in order
RECURSIVE GroupOf(_, _)
GroupOf(ps, key) ==
  IF ps = <<>> THEN <<>>
  ELSE (IF Head(ps).lineEndPosition = key THEN <<Head(ps)>> ELSE <<>>)
         \o GroupOf(Tail(ps), key)

\* groupByLineEnd(positions).values()
GroupByLineEnd(ps) ==
  [g \in 1..Len(GroupKeys(ps, {})) |-> GroupOf(ps, GroupKeys(ps, {})[g])]

\* combinations.length > 5
MaxDisplayed == 5

\* Array.prototype.join(", ")
RECURSIVE Join(_)
Join(strs) ==
  IF strs = <<>> THEN ""
  ELSE IF Len(strs) = 1 THEN strs[1]
  ELSE strs[1] \o ", " \o Join(Tail(strs))

\* displayText, lines 74-79
DisplayText(combinations) ==
  IF Len(combinations) > MaxDisplayed
  THEN Join(SliceFront(combinations, MaxDisplayed)) \o "... ("
         \o NumStr(Len(combinations)) \o " total)"
  ELSE Join(combinations)

\* the DecorationOptions pushed at lines 81-89
Decoration(group, combinations) ==
  [range |-> group[1].lineEndPosition,
   contentText |-> " // " \o DisplayText(combinations)]

\* a variant that records nothing
MapSetNothing(m, key, values) == m

\* varValues.set(key, values)
MapSet(m, key, values) ==
  [k \in DOMAIN m \cup {key} |-> IF k = key THEN values ELSE m[k]]

\* the expressions that occur in the templates of the document
DecExpressions == {<<"m", "exchangeType">>, <<"v">>, <<"u">>, <<"n", "p">>}

\* part.value as the resolver reads it: expression.split(".")
SplitDots(value) == CHOOSE e \in DecExpressions : ExprText(e) = value

DecGrouped == GroupByLineEnd(positions)

DecGroupNow == DecGrouped[decGroup]

DecPartNow == DecGroupNow[decPos].templateParts[decPart]

\* what the language service may answer at a variable's position
DecOracles ==
  {Silent, Oracle(<<HoverText(HUnion)>>, NoLocation, NoLocation, NoHover)}

\* buildDecorations, line 62: the loop is at a group; resolveVariableValues
\* (line 63) starts with an empty Map
DecorateGroup ==
  /\ decPc = "group"
  /\ decGroup <= Len(DecGrouped)
  /\ varValues' = <<>>
  /\ decPos' = 1
  /\ decPart' = 1
  /\ decPc' = "resolve"
  /\ UNCHANGED <<cancelled, positions, decGroup, decorations, shown>>
  /\ UNCHANGED <<genVars, exVars, rvVars>>
  /\ UNCHANGED ipVars
  /\ UNCHANGED <<scVars, edVars, fdVars>>

\* lines 122-124: on to the next part, the next position of the group
DecorateNextPart ==
  /\ decPc = "resolve"
  /\ decPos <= Len(DecGroupNow)
  /\ \/ /\ decPart > Len(DecGroupNow[decPos].templateParts)
        /\ decPos' = decPos + 1
        /\ decPart' = 1
     \/ /\ decPart <= Len(DecGroupNow[decPos].templateParts)
        /\ DecPartNow.type # "variable"
        /\ decPart' = decPart + 1
        /\ UNCHANGED decPos
  /\ UNCHANGED <<cancelled, positions, decGroup, varValues, decorations,
                 decPc, shown>>
  /\ UNCHANGED <<genVars, exVars, rvVars>>
  /\ UNCHANGED ipVars
  /\ UNCHANGED <<scVars, edVars, fdVars>>

\* lines 125-130: resolveVariable(part.value, part.position, document,
\* sourceFile) is called and awaited
DecorateCallResolve ==
  /\ decPc = "resolve"
  /\ decPos <= Len(DecGroupNow)
  /\ decPart <= Len(DecGroupNow[decPos].templateParts)
  /\ DecPartNow.type = "variable"
  /\ varExpression' = SplitDots(DecPartNow.value)
  /\ position' = DecPartNow.position
  /\ oracle' \in DecOracles
  /\ rvIdx' = 1
  /\ trace' = <<>>
  /\ result' = <<>>
  /\ outcome' = "running"
  /\ hoverQueries' = 0
  /\ rvRun' = 1
  /\ firstResult' = <<>>
  /\ decPc' = "awaitResolve"
  /\ UNCHANGED <<cancelled, positions, decGroup, decPos, decPart, varValues,
                 decorations,
                 shown>>
  /\ UNCHANGED <<genVars, exVars>>
  /\ UNCHANGED ipVars
  /\ UNCHANGED <<scVars, edVars, fdVars>>

\* lines 131-133: resolveVariable returned
DecorateResolved ==
  /\ decPc = "awaitResolve"
  /\ outcome = "returned"
  /\ varValues' = IF Len(result) > 0
                  THEN MapSet(varValues, DecPartNow.value, result)
                  ELSE varValues
  /\ decPart' = decPart + 1
  /\ decPc' = "resolve"
  /\ outcome' = "off"
  /\ UNCHANGED <<cancelled, positions, decGroup, decPos, decorations, shown>>
  /\ UNCHANGED <<varExpression, position, oracle, rvIdx, trace, result,
                 hoverQueries, rvRun, firstResult>>
  /\ UNCHANGED <<genVars, exVars>>
  /\ UNCHANGED ipVars
  /\ UNCHANGED <<scVars, edVars, fdVars>>

\* resolveVariable rejected: no try in resolveVariableValues or
\* buildDecorations, the catch of updateDecorations (part_010 60-62) logs the
\* error and editor.setDecorations is not called
DecorateRejected ==
  /\ decPc = "awaitResolve"
  /\ outcome = "raised"
  /\ decPc' = "failed"
  /\ outcome' = "off"
  /\ UNCHANGED <<cancelled, positions, decGroup, decPos, decPart, varValues,
                 decorations,
                 shown>>
  /\ UNCHANGED <<varExpression, position, oracle, rvIdx, trace, result,
                 hoverQueries, rvRun, firstResult>>
  /\ UNCHANGED <<genVars, exVars>>
  /\ UNCHANGED ipVars
  /\ UNCHANGED <<scVars, edVars, fdVars>>

\* lines 64-66: if (varValues.size === 0) continue
DecorateSkipGroup ==
  /\ decPc = "resolve"
  /\ decPos > Len(DecGroupNow)
  /\ DOMAIN varValues = {}
  /\ decGroup' = decGroup + 1
  /\ decPc' = "group"
  /\ UNCHANGED <<cancelled, positions, decPos, decPart, varValues,
                 decorations, shown>>
  /\ UNCHANGED <<genVars, exVars, rvVars>>
  /\ UNCHANGED ipVars
  /\ UNCHANGED <<scVars, edVars, fdVars>>

\* lines 68-71: generateCombinations(group[0].templateParts, varValues)
DecorateCallGenerate ==
  /\ decPc = "resolve"
  /\ decPos > Len(DecGroupNow)
  /\ DOMAIN varValues # {}
  /\ templateParts' = DecGroupNow[1].templateParts
  /\ variableValues' = varValues
  /\ genStack' = <<>>
  /\ results' = <<>>
  /\ output' = <<>>
  /\ genPc' = "idle"
  /\ decPc' = "awaitGenerate"
  /\ UNCHANGED <<cancelled, positions, decGroup, decPos, decPart, varValues,
                 decorations,
                 shown>>
  /\ UNCHANGED <<exVars, rvVars>>
  /\ UNCHANGED ipVars
  /\ UNCHANGED <<scVars, edVars, fdVars>>

\* lines 73-90: the combinations are back; a decoration is pushed if there
\* is at least one
DecorateGenerated ==
  /\ decPc = "awaitGenerate"
  /\ genPc = "done"
  /\ decorations' = IF Len(output) > 0
                    THEN Append(decorations, Decoration(DecGroupNow, output))
                    ELSE decorations
  /\ decGroup' = decGroup + 1
  /\ decPc' = "group"
  /\ genPc' = "off"
  /\ UNCHANGED <<cancelled, positions, decPos, decPart, varValues, shown>>
  /\ UNCHANGED <<templateParts, variableValues, genStack, results, output>>
  /\ UNCHANGED <<exVars, rvVars>>
  /\ UNCHANGED ipVars
  /\ UNCHANGED <<scVars, edVars, fdVars>>

\* line 93 and part_010 57-59: buildDecorations returns, the decorations
\* are handed to editor.setDecorations
DecorateReturn ==
  /\ decPc = "group"
  /\ decGroup > Len(DecGrouped)
  /\ shown' = decorations
  /\ decPc' = "set"
  /\ UNCHANGED <<cancelled, positions, decGroup, decPos, decPart, varValues,
                 decorations>>
  /\ UNCHANGED <<genVars, exVars, rvVars>>
  /\ UNCHANGED ipVars
  /\ UNCHANGED <<scVars, edVars, fdVars>>

\* neither buildDecorations nor updateDecorations takes a cancellation token:
\* a request to stop, made while the batch runs, changes nothing they read
DecorateCancel ==
  /\ decPc \in {"group", "resolve", "awaitResolve", "awaitGenerate"}
  /\ ~cancelled
  /\ cancelled' = TRUE
  /\ UNCHANGED <<positions, decGroup, decPos, decPart, varValues, decorations,
                 decPc, shown>>
  /\ UNCHANGED <<genVars, exVars, rvVars>>
  /\ UNCHANGED ipVars
  /\ UNCHANGED <<scVars, edVars, fdVars>>

(* Inputs of updateDecorations: the document and its template literals *)

\* "A" | "B" | "C"
ExUnion == UnionType(<<Lit("\"", "A"), Lit("\"", "B"), Lit("\"", "C")>>)

\* type Ex = "A" | "B" | "C"
\* const m = { exchangeType: "B" as Ex }
\* const v = "q"
\* const n: T = { p: "a" }
DecDocument ==
  <<AliasDecl("Ex", ExUnion),
    VarDecl("m", NoType,
            ObjInit(<<Prop("", "exchangeType", AsInit(StrInit("B"), "Ex"))>>)),
    VarDecl("v", NoType, StrInit("q")),
    VarDecl("n", TypeRef("T"), ObjInit(<<Prop("", "p", StrInit("a"))>>))>>

\* the document imports T from ./lib, from a path nothing exists at, from
\* a package, or not at all
DecWorlds ==
  {[f \in FileIds |-> IF f = "main" THEN SourceFile(DecDocument, imports)
                      ELSE LibResolve] : imports \in DocumentImports}

\* `X.${m.exchangeType}.Y`, `${v}-${u}`, `${u}`, `${n.p}`,
\* `${m.exchangeType}/${m.exchangeType}`
DecTemplates ==
  { <<StaticPart("X."), PositionedPart(<<"m", "exchangeType">>),
      StaticPart(".Y")>>,
    <<StaticPart(""), PositionedPart(<<"v">>), StaticPart("-"),
      PositionedPart(<<"u">>), StaticPart("")>>,
    <<StaticPart(""), PositionedPart(<<"u">>), StaticPart("")>>,
    <<StaticPart(""), PositionedPart(<<"n", "p">>), StaticPart("")>>,
    <<StaticPart(""), PositionedPart(<<"m", "exchangeType">>), StaticPart("/"),
      PositionedPart(<<"m", "exchangeType">>), StaticPart("")>> }

\* the template literals of the document, one or two; the k-th ends on
\* line k
DecPositions ==
  {<<TemplateLiteralPosition(1, t)>> : t \in DecTemplates}
    \cup {<<TemplateLiteralPosition(1, t[1]), TemplateLiteralPosition(2, t[2])>> :
            t \in DecTemplates \X DecTemplates}

\* updateDecorations(editor) runs on a TypeScript file: findTemplateLiterals
\* has found the positions and buildDecorations starts
InitDecorate ==
  /\ world \in DecWorlds
  /\ impl = "v1"
  /\ request = NoNode
  /\ exStack = <<>>
  /\ exRet = <<>>
  /\ exPc = "off"
  /\ exResult = <<>>
  /\ entered = <<>>
  /\ positions \in DecPositions
  /\ decGroup = 1
  /\ decPos = 0
  /\ decPart = 0
  /\ varValues = <<>>
  /\ decorations = <<>>
  /\ decPc = "group"
  /\ shown = <<>>
  /\ cancelled = FALSE
  /\ GenIdle
  /\ RvIdle
  /\ IpIdle
  /\ ScIdle
  /\ EdIdle
  /\ FdIdle

NextDecorate ==
  \/ DecorateGroup
  \/ DecorateNextPart
  \/ DecorateCallResolve
  \/ DecorateResolved
  \/ DecorateRejected
  \/ DecorateSkipGroup
  \/ DecorateCallGenerate
  \/ DecorateGenerated
  \/ DecorateReturn
  \/ DecorateCancel
  \/ NextResolve
  \/ NextGen

SpecDecorate == InitDecorate /\ [][NextDecorate]_vars

-----------------------------------------------------------------------------
(* resolveImportPath (src/src/resolvers/import-resolver.ts 4-56), one      *)
(* action per fs.stat.  A module specifier is its leading "./" or "../"    *)
(* (none for a package), its stem, and its last extension.                 *)

Specifier(dots, stem, ext) == [dots |-> dots, stem |-> stem, ext |-> ext]

\* importPath.startsWith("./") || importPath.startsWith("../")
IsRelative(sp) == sp.dots \in {"./", "../"}

\* /\.(m?[tj]sx?|[cm]js)$/.test(importPath)
HasExtension(sp) ==
  sp.ext \in {".ts", ".tsx", ".js", ".jsx", ".mts", ".mtsx", ".mjs", ".mjsx",
              ".cjs"}

\* importPath.replace(/\.m?js$/, ext)
ReplaceJs(sp, ext) ==
  IF sp.ext \in {".js", ".mjs"} THEN Specifier(sp.dots, sp.stem, ext) ELSE sp

\* importPath.replace(/\.cjs$/, ".cts")
ReplaceCjs(sp) ==
  IF sp.ext = ".cjs" THEN Specifier(sp.dots, sp.stem, ".cts") ELSE sp

\* importPath + ext: the whole text becomes the stem of the longer path
AppendExtension(sp, ext) == Specifier(sp.dots, sp.stem \o sp.ext, ext)

\* a variant that tries the specifier as given before the substitutions
CandidatesAsGivenFirst(sp) ==
  IF HasExtension(sp)
  THEN <<sp, ReplaceJs(sp, ".ts"), ReplaceJs(sp, ".tsx"), ReplaceJs(sp, ".mts"),
         ReplaceCjs(sp)>>
  ELSE <<sp, AppendExtension(sp, ".ts"), AppendExtension(sp, ".tsx"),
         AppendExtension(sp, ".js"), AppendExtension(sp, ".jsx")>>

\* the arrays `extensions` of lines 19-25 and 39-42, as the paths tried
Candidates(sp) ==
  IF HasExtension(sp)
  THEN <<ReplaceJs(sp, ".ts"), ReplaceJs(sp, ".tsx"), ReplaceJs(sp, ".mts"),
         ReplaceCjs(sp), sp>>
  ELSE <<AppendExtension(sp, ".ts"), AppendExtension(sp, ".tsx"),
         AppendExtension(sp, ".js"), AppendExtension(sp, ".jsx")>>

\* lines 37 and 51: what is returned when no candidate exists
Fallback(sp) == IF HasExtension(sp) THEN sp ELSE AppendExtension(sp, ".ts")

\* the document is /dir/main.ts: documentDir = Uri.joinPath(document.uri, "..")
DocumentDir == "/dir"

\* vscode.Uri.joinPath(documentDir, path): "./" stays in the directory, "../"
\* leaves it
JoinPath(sp) ==
  (IF sp.dots = "./" THEN DocumentDir ELSE "") \o "/" \o sp.stem \o sp.ext

\* return undefined
NoUri == ""

\* lines 15-16, 19-25, 39: a relative specifier, the loop is set up
ImportPathCall ==
  /\ ipPc = "idle"
  /\ IsRelative(importPath)
  /\ ipCandidates' = Candidates(importPath)
  /\ ipPc' = "stat"
  /\ UNCHANGED <<importPath, disk, ipStats, ipResult>>
  /\ UNCHANGED <<genVars, exVars, rvVars, decVars, scVars, edVars,
               fdVars>>

\* line 55: not a relative specifier
ImportPathNotRelative ==
  /\ ipPc = "idle"
  /\ ~IsRelative(importPath)
  /\ ipResult' = NoUri
  /\ ipPc' = "done"
  /\ UNCHANGED <<importPath, disk, ipCandidates, ipStats>>
  /\ UNCHANGED <<genVars, exVars, rvVars, decVars, scVars, edVars,
               fdVars>>

\* lines 27-35 and 41-49: fs.stat of the next candidate; it is returned if
\* the stat succeeds
ImportPathStat ==
  /\ ipPc = "stat"
  /\ ipCandidates # <<>>
  /\ ipStats' = Append(ipStats, JoinPath(Head(ipCandidates)))
  /\ IF JoinPath(Head(ipCandidates)) \in disk
     THEN /\ ipResult' = JoinPath(Head(ipCandidates))
          /\ ipPc' = "done"
          /\ UNCHANGED ipCandidates
     ELSE /\ ipCandidates' = Tail(ipCandidates)
          /\ UNCHANGED <<ipResult, ipPc>>
  /\ UNCHANGED <<importPath, disk>>
  /\ UNCHANGED <<genVars, exVars, rvVars, decVars, scVars, edVars,
               fdVars>>

\* lines 37 and 51: every stat failed
ImportPathFallback ==
  /\ ipPc = "stat"
  /\ ipCandidates = <<>>
  /\ ipResult' = JoinPath(Fallback(importPath))
  /\ ipPc' = "done"
  /\ UNCHANGED <<importPath, disk, ipCandidates, ipStats>>
  /\ UNCHANGED <<genVars, exVars, rvVars, decVars, scVars, edVars,
               fdVars>>

(* Inputs of resolveImportPath *)

\* the most files on disk
MaxFiles == 2

\* ./x, ./x.js, ./x.mjs, ./x.cjs, ./x.ts, ./x.jsx, ./x.json, ../x.js, pkg
ImportPaths ==
  {Specifier("./", "x", e) :
     e \in {"", ".js", ".mjs", ".cjs", ".ts", ".jsx", ".json"}}
    \cup {Specifier("../", "x", ".js"), Specifier("", "pkg", "")}

\* the files that may exist next to the document and above it
Files ==
  {"/dir/x" \o e :
     e \in {"", ".ts", ".tsx", ".js", ".jsx", ".mjs", ".mts", ".cjs", ".cts",
            ".json"}}
    \cup {"/x.ts", "/x.js"}

InitImportPath ==
  /\ importPath \in ImportPaths
  /\ disk \in {d \in SUBSET Files : Cardinality(d) <= MaxFiles}
  /\ ipCandidates = <<>>
  /\ ipStats = <<>>
  /\ ipPc = "idle"
  /\ ipResult = NoUri
  /\ GenIdle
  /\ ExIdle
  /\ RvIdle
  /\ DecIdle
  /\ ScIdle
  /\ EdIdle
  /\ FdIdle

NextImportPath ==
  \/ ImportPathCall
  \/ ImportPathNotRelative
  \/ ImportPathStat
  \/ ImportPathFallback

SpecImportPath == InitImportPath /\ [][NextImportPath]_vars

-----------------------------------------------------------------------------
(* findTemplateLiterals (src/src/parsers/template-literal-parser.ts 5-71)  *)
(* on one template expression.  The text of an expression is its sequence  *)
(* of characters; the document is one line, so that a vscode.Position is   *)
(* the character offset.                                                   *)

\* expression.includes(c)
Includes(expression, c) == \E i \in 1..Len(expression) : expression[i] = c

\* a variant that forgets the optional-chaining question mark
CleanVariableExpressionBangOnly(expression) ==
  SelectSeq(expression, LAMBDA c : c # "!")

\* expression.replace(/!/g, "").replace(/\?/g, "")
CleanVariableExpression(expression) ==
  SelectSeq(SelectSeq(expression, LAMBDA c : c # "!"), LAMBDA c : c # "?")

\* a TemplateSpan: span.expression with getText() = text and getStart() =
\* start, so that getEnd() = start + text.length
TemplateSpan(text, start) == [text |-> text, start |-> start]

GetStart(span) == span.start

GetEnd(span) == span.start + Len(span.text)

\* lines 29-35: isPropertyAccess ? getEnd() - 1 : getStart() + 1
TargetPos(span) ==
  IF Includes(span.text, ".") THEN GetEnd(span) - 1 ELSE GetStart(span) + 1

\* lines 39-43: { type: "variable", value: cleanExpression, position }
ScannedPart(span) ==
  [type |-> "variable", value |-> CleanVariableExpression(span.text),
   position |-> TargetPos(span)]

\* line 21: a template expression is met, its head is pushed
ScanTemplate ==
  /\ scPc = "idle"
  /\ scParts' = <<StaticPart("x")>>
  /\ scSpan' = 1
  /\ scPc' = "spans"
  /\ UNCHANGED <<spans, scPositions>>
  /\ UNCHANGED <<genVars, exVars, rvVars, decVars, ipVars, edVars,
               fdVars>>

\* lines 23-46: one turn of node.templateSpans.forEach
ScanSpan ==
  /\ scPc = "spans"
  /\ scSpan <= Len(spans)
  /\ scParts' = scParts \o <<ScannedPart(spans[scSpan]), StaticPart("y")>>
  /\ scSpan' = scSpan + 1
  /\ UNCHANGED <<spans, scPositions, scPc>>
  /\ UNCHANGED <<genVars, exVars, rvVars, decVars, ipVars, edVars,
               fdVars>>

\* lines 48-63: the first variable part with a position gives
\* variablePosition; the template ends after the closing backquote
ScanPush ==
  /\ scPc = "spans"
  /\ scSpan > Len(spans)
  /\ scPositions' =
       IF \E i \in 1..Len(scParts) : scParts[i].type = "variable"
       THEN <<[variablePosition |->
                 scParts[CHOOSE i \in 1..Len(scParts) :
                           /\ scParts[i].type = "variable"
                           /\ \A j \in 1..(i - 1) :
                                scParts[j].type # "variable"].position,
               lineEndPosition |-> GetEnd(spans[Len(spans)]) + 3,
               templateParts |-> scParts]>>
       ELSE <<>>
  /\ scPc' = "done"
  /\ UNCHANGED <<spans, scSpan, scParts>>
  /\ UNCHANGED <<genVars, exVars, rvVars, decVars, ipVars, edVars,
               fdVars>>

(* Inputs of findTemplateLiterals *)

\* the most property accesses in an expression
MaxHops == 2

\* the identifiers a, b and ab
Identifiers == {<<"a">>, <<"b">>, <<"a", "b">>}

\* an identifier, with or without a trailing `!`
NameTexts == {id \o bang : id \in Identifiers, bang \in {<<>>, <<"!">>}}

\* `.` or `?.` and a name
HopTexts == {acc \o nm : acc \in {<<".">>, <<"?", ".">>}, nm \in NameTexts}

RECURSIVE HopsTexts(_)
\* the chains of exactly n property accesses
HopsTexts(n) ==
  IF n = 0 THEN {<<>>}
  ELSE {h \o t : h \in HopTexts, t \in HopsTexts(n - 1)}

\* a name, up to MaxHops accesses, and possibly a call: a, ab!, a?.b, a.b!.a()
ExpressionTexts ==
  {nm \o hops \o call :
     nm \in NameTexts,
     hops \in UNION {HopsTexts(n) : n \in 0..MaxHops},
     call \in {<<>>, <<"(", ")">>}}

\* `x${e}y` starts at offset 0: the expression starts after the backquote,
\* the head and `${`; a second expression after `}`, `y` and `${`
FirstStart == Len(<<"backquote", "x", "$", "{">>)

TemplateSpans ==
  {<<TemplateSpan(e, FirstStart)>> : e \in ExpressionTexts}
    \cup {<<TemplateSpan(f, FirstStart),
            TemplateSpan(e, FirstStart + Len(f) + 4)>> :
            f \in {<<"a">>, <<"a", ".", "b">>}, e \in ExpressionTexts}

InitScan ==
  /\ spans \in TemplateSpans
  /\ scSpan = 0
  /\ scParts = <<>>
  /\ scPositions = <<>>
  /\ scPc = "idle"
  /\ GenIdle
  /\ ExIdle
  /\ RvIdle
  /\ DecIdle
  /\ IpIdle
  /\ EdIdle
  /\ FdIdle

NextScan ==
  \/ ScanTemplate
  \/ ScanSpan
  \/ ScanPush

SpecScan == InitScan /\ [][NextScan]_vars

-----------------------------------------------------------------------------
(* findDeclarationInFile and findExportedDeclaration called on one file,   *)
(* in the definitions of src/src/utils/typescript-helpers.ts and of        *)
(* src/unnamed/part_008.                                                   *)

FinderVersions == {"typescript-helpers", "part_008"}

\* findDeclarationInFile(sourceFile, name) is called
FindDeclarationCall ==
  /\ fdPc = "idle"
  /\ fdDeclaration' = IF fdVersion = "part_008"
                      THEN FindDeclarationOrParameter(Document, fdName)
                      ELSE FindDeclarationInFile(Document, fdName)
  /\ fdPc' = "declaration"
  /\ UNCHANGED <<fdName, fdVersion, fdExported>>
  /\ UNCHANGED <<genVars, exVars, rvVars, decVars, ipVars, scVars, edVars>>

\* findExportedDeclaration(sourceFile, name) is called
FindExportedCall ==
  /\ fdPc = "declaration"
  /\ fdExported' = IF fdVersion = "part_008"
                   THEN FindExportedOrParameter(Document, fdName)
                   ELSE FindExportedDeclaration(Document, fdName)
  /\ fdPc' = "done"
  /\ UNCHANGED <<fdName, fdVersion, fdDeclaration>>
  /\ UNCHANGED <<genVars, exVars, rvVars, decVars, ipVars, scVars, edVars>>

(* Inputs of the two searches *)

\* the most nodes of a file
MaxNodes == 3

\* const n = "a"; a parameter n; enum n {}; export type n = ...; a property
\* signature n; const local = "b"; export { local as n }; export { n }
FinderNodes ==
  {VarDecl("n", NoType, StrInit("a")),
   ParamDecl("n", NoType),
   EnumDecl("n", <<>>),
   Exported(AliasDecl("n", NoType)),
   PropSig("n", NoType),
   VarDecl("local", NoType, StrInit("b")),
   ExportDecl(<<ExportSpecifier("local", "n")>>),
   ExportDecl(<<ExportSpecifier("", "n")>>)}

\* node i of the file lies directly inside node i - 1
Inside(ds, inner) ==
  [i \in 1..Len(ds) |-> IF i \in inner THEN [ds[i] EXCEPT !.parent = i - 1]
                        ELSE ds[i]]

\* a parameter or a property signature is never a statement of the file; an
\* export clause always is; a node lies inside a variable declaration only
\* (its initialiser is a function, its type a type literal)
WellFormed(ds) ==
  \A i \in 1..Len(ds) :
    /\ ds[i].kind \in {"param", "propsig"} => ds[i].parent # 0
    /\ ds[i].kind = "export" => ds[i].parent = 0
    /\ ds[i].parent # 0 => ds[i - 1].kind = "var"

\* the nodes of a file in pre-order
FinderFiles ==
  {ds \in {Inside(flat, inner) :
             flat \in UNION {[1..k -> FinderNodes] : k \in 1..MaxNodes},
             inner \in SUBSET (2..MaxNodes)} :
     WellFormed(ds)}

InitFind ==
  /\ \E ds \in FinderFiles :
       world = [EmptyWorld EXCEPT ![Document] = SourceFile(ds, <<>>)]
  /\ impl = "v1"
  /\ request = NoNode
  /\ exStack = <<>>
  /\ exRet = <<>>
  /\ exPc = "off"
  /\ exResult = <<>>
  /\ entered = <<>>
  /\ fdName \in {"n", "local"}
  /\ fdVersion \in FinderVersions
  /\ fdDeclaration = 0
  /\ fdExported = 0
  /\ fdPc = "idle"
  /\ GenIdle
  /\ RvIdle
  /\ DecIdle
  /\ IpIdle
  /\ ScIdle
  /\ EdIdle

NextFind ==
  \/ FindDeclarationCall
  \/ FindExportedCall

SpecFind == InitFind /\ [][NextFind]_vars

-----------------------------------------------------------------------------
(* activate (src/unnamed/part_010 7-63, src/src/extension.ts 7-62): the    *)
(* debounced scheduling of updateDecorations.  Time is counted in units of *)
(* 500 ms; every editor shows its own document.                            *)

Editors == {1, 2}

\* part_010 49-54: editor 1 shows a file main.ts, editor 2 a file notes.md
IsScriptFile(editor) == editor = 1

\* a variant that leaves the pending timer alone
ClearNothing(pending, handle) == pending

\* clearTimeout(timeout): the pending timer with that handle, if any, is
\* dropped; a handle that has fired, or undefined, clears nothing
ClearTimeout(pending, handle) == {t \in pending : t.id # handle}

\* scheduleUpdate(editor, delay), lines 19-26
ScheduleUpdate(editor, delay) ==
  /\ timers' = ClearTimeout(timers, timeout)
                  \cup {[id |-> lastTrigger.id + 1, editor |-> editor,
                         due |-> now + delay]}
  /\ timeout' = lastTrigger.id + 1
  /\ lastTrigger' = [id |-> lastTrigger.id + 1, at |-> now, delay |-> delay]

\* the most calls of scheduleUpdate
MaxTriggers == 3

\* the last instant
MaxTime == 3

\* the most edits of one document
MaxEdits == 2

\* lines 16-17 and 28-30: activate reads the active editor and schedules
\* the first update after 1000 ms
Activate ==
  /\ edPc = "start"
  /\ edPc' = "active"
  /\ activeEditor' = windowEditor
  /\ IF windowEditor # NoEditor
     THEN ScheduleUpdate(windowEditor, 2)
     ELSE UNCHANGED <<timers, timeout, lastTrigger>>
  /\ UNCHANGED <<windowEditor, now, version, running, applied, started>>
  /\ UNCHANGED <<genVars, exVars, rvVars, decVars, ipVars, scVars, fdVars>>

\* lines 33-38: another editor, or none, becomes the active one
ChangeActiveTextEditor ==
  /\ edPc = "active"
  /\ lastTrigger.id < MaxTriggers
  /\ \E editor \in (Editors \cup {NoEditor}) \ {windowEditor} :
       /\ windowEditor' = editor
       /\ IF editor # NoEditor
          THEN /\ activeEditor' = editor
               /\ ScheduleUpdate(editor, 1)
          ELSE UNCHANGED <<activeEditor, timers, timeout, lastTrigger>>
  /\ UNCHANGED <<now, version, running, applied, started, edPc>>
  /\ UNCHANGED <<genVars, exVars, rvVars, decVars, ipVars, scVars, fdVars>>

\* lines 39-43: a document is edited
ChangeTextDocument ==
  /\ edPc = "active"
  /\ lastTrigger.id < MaxTriggers
  /\ \E editor \in Editors :
       /\ version[editor] < MaxEdits + 1
       /\ version' = [version EXCEPT ![editor] = @ + 1]
       /\ IF activeEditor # NoEditor /\ editor = activeEditor
          THEN ScheduleUpdate(activeEditor, 1)
          ELSE UNCHANGED <<timers, timeout, lastTrigger>>
  /\ UNCHANGED <<windowEditor, activeEditor, now, running, applied, started,
                 edPc>>
  /\ UNCHANGED <<genVars, exVars, rvVars, decVars, ipVars, scVars, fdVars>>

\* 500 ms pass; a timer that is due fires first
Tick ==
  /\ edPc = "active"
  /\ now < MaxTime
  /\ \A t \in timers : t.due > now
  /\ now' = now + 1
  /\ UNCHANGED <<windowEditor, activeEditor, timeout, timers, version,
                 running, applied, started, lastTrigger, edPc>>
  /\ UNCHANGED <<genVars, exVars, rvVars, decVars, ipVars, scVars, fdVars>>

\* lines 21-25 and 46-57: the callback of a timer runs; updateDecorations
\* is called if the editor is still the active one, reads the document and
\* awaits buildDecorations unless the document is no script file
TimerFires ==
  /\ edPc = "active"
  /\ \E t \in timers :
       /\ t.due <= now
       /\ timers' = timers \ {t}
       /\ IF windowEditor = t.editor
          THEN /\ started' = Append(started,
                                    [timer |-> t.id, editor |-> t.editor,
                                     at |-> now, trigger |-> lastTrigger,
                                     active |-> windowEditor,
                                     version |-> version[t.editor]])
               /\ running' = IF IsScriptFile(t.editor)
                             THEN running \cup {[editor |-> t.editor,
                                                 version |-> version[t.editor]]}
                             ELSE running
          ELSE UNCHANGED <<started, running>>
  /\ UNCHANGED <<windowEditor, activeEditor, timeout, now, version, applied,
                 lastTrigger, edPc>>
  /\ UNCHANGED <<genVars, exVars, rvVars, decVars, ipVars, scVars, fdVars>>

\* lines 58-59: buildDecorations resolved, editor.setDecorations is given
\* the decorations of the positions read when the call started
UpdateApplies ==
  /\ edPc = "active"
  /\ \E r \in running :
       /\ running' = running \ {r}
       /\ applied' = [applied EXCEPT ![r.editor] = r.version]
  /\ UNCHANGED <<windowEditor, activeEditor, timeout, timers, now, version,
                 started, lastTrigger, edPc>>
  /\ UNCHANGED <<genVars, exVars, rvVars, decVars, ipVars, scVars, fdVars>>

\* lines 60-62: buildDecorations rejected, the error is logged
UpdateFails ==
  /\ edPc = "active"
  /\ \E r \in running : running' = running \ {r}
  /\ UNCHANGED <<windowEditor, activeEditor, timeout, timers, now, version,
                 applied, started, lastTrigger, edPc>>
  /\ UNCHANGED <<genVars, exVars, rvVars, decVars, ipVars, scVars, fdVars>>

InitActivate ==
  /\ windowEditor \in Editors \cup {NoEditor}
  /\ activeEditor = NoEditor
  /\ timeout = NoTimeout
  /\ timers = {}
  /\ now = 0
  /\ version = [e \in Editors |-> 1]
  /\ running = {}
  /\ applied = [e \in Editors |-> 0]
  /\ started = <<>>
  /\ lastTrigger = NoTrigger
  /\ edPc = "start"
  /\ GenIdle
  /\ ExIdle
  /\ RvIdle
  /\ DecIdle
  /\ IpIdle
  /\ ScIdle
  /\ FdIdle

NextActivate ==
  \/ Activate
  \/ ChangeActiveTextEditor
  \/ ChangeTextDocument
  \/ Tick
  \/ TimerFires
  \/ UpdateApplies
  \/ UpdateFails

SpecActivate == InitActivate /\ [][NextActivate]_vars

-----------------------------------------------------------------------------
(* Claims about extractValuesFromDeclaration, checked under SpecExtract *)

\* C1: the claim that a cycle is detected, so that no (file, declaration)
\* pair is entered twice in one top-level resolution.
C1_NoDeclarationEnteredTwice ==
  \A i, j \in 1..Len(entered) : i # j => entered[i] # entered[j]

RequestDecl == DeclAt(request.f, request.i)

\* the declaration an asserted type name T denotes: found locally, else
\* through an import
C9_TypeDecl ==
  LET local == FindDeclarationInFile(request.f, RequestDecl.init.type) IN
  IF local # 0 THEN Node(request.f, local)
  ELSE ImportLookup(request.f, RequestDecl.init.type).node

\* C9: the claim that for a variable `x as T` (x no object literal) the
\* extractor returns the literal set of T whenever T resolves to a non-empty
\* set, and otherwise the singleton of x if x is a string literal, else the
\* empty set.
C9_AssertionPrecedence ==
  (/\ exPc = "done"
   /\ RequestDecl.kind = "var"
   /\ RequestDecl.init.k = "as"
   /\ RequestDecl.init.ek # "obj")
  => LET t == C9_TypeDecl
         ofT == IF t = NoNode THEN [status |-> "ok", vals |-> <<>>]
                ELSE ExtractValuesFromDeclaration(t.f, t.i, t.f, "main")
     IN IF ofT.vals # <<>> THEN exResult = ofT.vals
        ELSE IF RequestDecl.init.ek = "str"
             THEN exResult = <<RequestDecl.init.text>>
             ELSE exResult = <<>>

\* the const object declarations named `name` in the document
C10_ConstObjects(name) ==
  {i \in DOMAIN Decls("main") :
     /\ Decls("main")[i].kind = "var"
     /\ Decls("main")[i].name = name
     /\ \/ Decls("main")[i].init.k = "obj"
        \/ Decls("main")[i].init.k = "as" /\ Decls("main")[i].init.ek = "obj"}

C10_IsAssignment(p) == p.kind = "assign"

C11_MemberValue(m) == IF m.hasInit THEN m.text ELSE m.name

\* C11: for an enumeration declaration the extractor returns one value per
\* member, in declaration order: the member's explicit string initializer
\* when it has one, the member's name otherwise.
C11_EnumerationFidelity ==
  (exPc = "done" /\ RequestDecl.kind = "enum")
  => /\ Len(exResult) = Len(RequestDecl.members)
     /\ \A k \in 1..Len(RequestDecl.members) :
          exResult[k] = C11_MemberValue(RequestDecl.members[k])

\* the request is a variable initialized with an object literal, bare or
\* under an assertion
C12_IsConstObject ==
  /\ RequestDecl.kind = "var"
  /\ \/ RequestDecl.init.k = "obj"
     \/ RequestDecl.init.k = "as" /\ RequestDecl.init.ek = "obj"

\* C12: for a variable initialized with an object literal (optionally under
\* an `as const`-style assertion) the extractor returns every own property
\* name of the object, without quotes, in declaration order.
C12_ConstObjectFidelity ==
  (exPc = "done" /\ C12_IsConstObject)
  => /\ Len(exResult) = Len(RequestDecl.init.props)
     /\ \A k \in 1..Len(RequestDecl.init.props) :
          exResult[k] = RequestDecl.init.props[k].name

C13_IsLiteral(m) == m.lit

\* C13: for a type alias that is a union the extractor returns, in member
\* order, the string value of every string-literal member without its quote
\* delimiters, whichever quote was written, and nothing for other members.
C13_UnionLiteralValues ==
  (exPc = "done" /\ RequestDecl.kind = "alias" /\ RequestDecl.type.k = "union")
  => LET literals == SelectSeq(RequestDecl.type.members, C13_IsLiteral) IN
     /\ Len(exResult) = Len(literals)
     /\ \A k \in 1..Len(literals) : exResult[k] = literals[k].text

\* C14: every sequence extractValuesFromDeclaration returns holds pairwise
\* distinct strings.
C14_DistinctValues ==
  exPc = "done"
  => \A i, j \in 1..Len(exResult) : i # j => exResult[i] # exResult[j]

-----------------------------------------------------------------------------
(* Claims about buildDecorations, checked under SpecDecorate *)

\* C17: the claim that a failing resolution of one variable is isolated:
\* when resolveVariable fails, the annotations already built for other sites
\* still reach the editor and no site of the file is left unvisited.
C17_FailureIsolation ==
  decPc = "failed"
  => /\ shown = decorations
     /\ decGroup = Len(DecGrouped)

\* the strings a template can expand to: every static part as it is, every
\* variable in the map replaced by one of its values, every other variable
\* by the placeholder {expr}
RECURSIVE C18_Expansions(_, _)
C18_Expansions(parts, map) ==
  IF parts = <<>> THEN {""}
  ELSE LET heads == IF Head(parts).type = "static" THEN {Head(parts).value}
                    ELSE IF Head(parts).value \in DOMAIN map
                    THEN Range(map[Head(parts).value])
                    ELSE {"{" \o Head(parts).value \o "}"}
       IN {h \o r : h \in heads, r \in C18_Expansions(Tail(parts), map)}

\* C18: a variable is recorded as resolved exactly when resolveVariable
\* returned values for it; a site none of whose variables resolved gets no
\* annotation; a site with a resolved variable gets one annotation, at the
\* end of its template, that shows combinations made of the resolved values
\* and of the {expr} placeholder for each unresolved variable; annotations
\* are produced in no other way.
C18_AnnotationsOfResolvedSites ==
  [][ /\ (decPc = "awaitResolve" /\ decPc' = "resolve")
         => IF result # <<>>
            THEN /\ DecPartNow.value \in DOMAIN varValues'
                 /\ varValues'[DecPartNow.value] = result
            ELSE DOMAIN varValues' = DOMAIN varValues
      /\ (decPc = "resolve" /\ decPc' = "group")
         => /\ DOMAIN varValues = {}
            /\ decorations' = decorations
      /\ (decPc = "resolve" /\ decPc' = "awaitGenerate")
         => DOMAIN varValues # {}
      /\ (decPc = "awaitGenerate" /\ decPc' = "group")
         => /\ output # <<>>
            /\ Range(output)
                 \subseteq C18_Expansions(DecGroupNow[1].templateParts, varValues)
            /\ decorations'
                 = Append(decorations,
                          [range |-> DecGroupNow[1].lineEndPosition,
                           contentText |-> " // " \o DisplayText(output)])
      /\ decorations' # decorations => decPc = "awaitGenerate"
      /\ decPc' = "set" => shown' = decorations
    ]_vars

\* two sites `${v}-${u}` and `${u}`: only v resolves, to ["q"]; the first
\* site is annotated with the placeholder for u, the second not at all
C18_Witness ==
  /\ decPc = "set"
  /\ Len(positions) = 2
  /\ Len(shown) = 1
  /\ shown[1] = [range |-> 1, contentText |-> " // q-{u}"]

\* C24: the batch checks a cancellation signal between sites: once the
\* signal is set no further site is resolved, so the loop of
\* buildDecorations never enters another group.
C24_NoSiteAfterCancellation ==
  [][cancelled /\ decPc = "group" => decPc' # "resolve"]_vars

-----------------------------------------------------------------------------
(* Claims about findTemplateLiterals, checked under SpecScan *)

\* the variable part of span k is the 2k-th template part
C22_PartOf(k) == scParts[2 * k]

\* the spans whose parts have been produced
C22_Scanned == 1..((Len(scParts) - 1) \div 2)

C22_IsNameChar(c) == c \in {"a", "b"}

\* the expression is one identifier
C22_IsBare(text) == \A i \in 1..Len(text) : C22_IsNameChar(text[i])

\* the index of the last character of the last name of the expression
C22_LastNameEnd(text) ==
  CHOOSE i \in 1..Len(text) :
    /\ C22_IsNameChar(text[i])
    /\ \A j \in (i + 1)..Len(text) : ~C22_IsNameChar(text[j])

\* the index of its first character
C22_LastNameStart(text) ==
  CHOOSE i \in 1..C22_LastNameEnd(text) :
    /\ \A j \in i..C22_LastNameEnd(text) : C22_IsNameChar(text[j])
    /\ i > 1 => ~C22_IsNameChar(text[i - 1])

\* C22: for every Variable part produced by findTemplateLiterals the
\* recorded position lies inside the identifier token when the expression is
\* a bare identifier (start <= pos < end, one-character identifiers
\* included), and inside the final property-access name token when the
\* expression is dotted, also when it ends in `!` or other punctuation.
C22_PositionInsideToken ==
  \A k \in C22_Scanned :
    /\ C22_IsBare(spans[k].text)
       => /\ GetStart(spans[k]) <= C22_PartOf(k).position
          /\ C22_PartOf(k).position < GetEnd(spans[k])
    /\ Includes(spans[k].text, ".")
       => /\ GetStart(spans[k]) + C22_LastNameStart(spans[k].text) - 1
               <= C22_PartOf(k).position
          /\ C22_PartOf(k).position
               < GetStart(spans[k]) + C22_LastNameEnd(spans[k].text)

\* the text holds neither `!` nor `?`
C23_Plain(text) == ~Includes(text, "!") /\ ~Includes(text, "?")

\* C23: cleanVariableExpression strips non-null-assertion and
\* optional-chaining punctuation: the value of a Variable part holds no `!`
\* and no `?`, cleaning it again changes nothing, an expression without that
\* punctuation is its own value, and `a?.b!` has the value of `a.b`.
C23_CleanedExpression ==
  \A k \in C22_Scanned :
    /\ C23_Plain(C22_PartOf(k).value)
    /\ CleanVariableExpression(C22_PartOf(k).value) = C22_PartOf(k).value
    /\ C23_Plain(spans[k].text) => C22_PartOf(k).value = spans[k].text
    /\ spans[k].text = <<"a", "?", ".", "b", "!">>
       => C22_PartOf(k).value = <<"a", ".", "b">>
    /\ \A j \in C22_Scanned :
         /\ spans[j].text = <<"a", ".", "b">>
         /\ spans[k].text = <<"a", "?", ".", "b", "!">>
         => C22_PartOf(j).value = C22_PartOf(k).value

\* `${a.b}` and `${a?.b!}` in one template: both parts are a.b
C23_Witness ==
  /\ scPc = "done"
  /\ Len(spans) = 2
  /\ spans[1].text = <<"a", ".", "b">>
  /\ spans[2].text = <<"a", "?", ".", "b", "!">>
  /\ scParts[2].value = <<"a", ".", "b">>
  /\ scParts[4].value = <<"a", ".", "b">>

-----------------------------------------------------------------------------
(* Claims about the declaration searches, checked under SpecFind *)

\* the nodes the claim counts: a variable declaration, enumeration, type
\* alias or parameter whose name is `name`
C26_Matches(name) ==
  {i \in DOMAIN Decls(Document) :
     /\ Decls(Document)[i].kind \in {"var", "enum", "alias", "param"}
     /\ Decls(Document)[i].name = name}

\* C26: findDeclarationInFile returns the first node in pre-order over the
\* whole file, whatever its scope, that is a variable declaration,
\* enumeration, type alias or parameter named `name`; never a later one; and
\* none only if there is no such node.
C26_FirstInPreOrder ==
  fdPc \in {"declaration", "done"}
  => /\ C26_Matches(fdName) = {} => fdDeclaration = 0
     /\ C26_Matches(fdName) # {}
        => /\ fdDeclaration \in C26_Matches(fdName)
           /\ \A i \in C26_Matches(fdName) : fdDeclaration <= i

\* the declaration statement i exports under `name`, 0 if it exports none:
\* itself when it carries the export modifier, the local declaration an
\* element of its clause forwards to (`local as name`, or `name`) otherwise
C27_ExportedBy(i, name) ==
  LET d == Decls(Document)[i] IN
  IF d.parent # 0 THEN 0
  ELSE IF d.kind \in {"var", "enum", "alias"} /\ d.exported /\ d.name = name
  THEN i
  ELSE IF d.kind = "export"
          /\ \E e \in 1..Len(d.members) : d.members[e].name = name
  THEN LET el == d.members[CHOOSE e \in 1..Len(d.members) :
                             d.members[e].name = name]
       IN FirstIndex({j \in DOMAIN Decls(Document) :
                        /\ Decls(Document)[j].kind \in {"var", "enum", "alias"}
                        /\ Decls(Document)[j].parent = 0
                        /\ Decls(Document)[j].name =
                             (IF el.propertyName = "" THEN el.name
                              ELSE el.propertyName)})
  ELSE 0

\* the statements that export a declaration under `name`
C27_Exporting(name) ==
  {i \in DOMAIN Decls(Document) : C27_ExportedBy(i, name) # 0}

\* C27: findExportedDeclaration returns the declaration exported under
\* `name` whenever there is one, exported directly or through a named-export
\* clause that forwards to a local declaration, renamed or not; and what
\* findDeclarationInFile returns for `name` whenever there is none.
C27_ExportedElseInFile ==
  fdPc = "done"
  => IF C27_Exporting(fdName) # {}
     THEN fdExported = C27_ExportedBy(FirstIndex(C27_Exporting(fdName)), fdName)
     ELSE fdExported = fdDeclaration

-----------------------------------------------------------------------------
(* Claims about activate, checked under SpecActivate *)

\* C29: when updateDecorations calls for successive versions of a file
\* overlap, a slower call for an older version never replaces the
\* decorations a call for a newer version has applied.
C29_NewerNeverOverwritten ==
  [][edPc = "active" =>
       \A e \in Editors : applied'[e] >= applied[e]]_vars

\* C30: at most one update timer is pending; an update starts only from the
\* timer of the last trigger, once, when the delay of that trigger has
\* elapsed, and only if the timer's editor is the active editor then.
C30_DebouncedScheduling ==
  edPc = "active"
  => /\ Cardinality(timers) <= 1
     /\ \A t \in timers : t.id = timeout /\ t.id = lastTrigger.id
     /\ \A k \in 1..Len(started) :
          /\ started[k].timer = started[k].trigger.id
          /\ started[k].at = started[k].trigger.at + started[k].trigger.delay
          /\ started[k].editor = started[k].active
          /\ \A j \in 1..Len(started) :
               started[j].timer = started[k].timer => j = k

\* a burst: the first update started from the timer of the third trigger
C30_Witness ==
  /\ Len(started) = 1
  /\ started[1].timer = 3
  /\ timers = {}

-----------------------------------------------------------------------------
(* Claims about resolveImportPath, checked under SpecImportPath *)

\* the paths of a sequence of specifiers, joined to the document's directory
C20_Paths(sps) == [i \in 1..Len(sps) |-> JoinPath(sps[i])]

\* the first n elements of a sequence
C20_Take(seq, n) == [i \in 1..n |-> seq[i]]

\* the specifier ends in one of the script extensions the code recognises
C20_HasScriptExtension(sp) ==
  sp.ext \in {".ts", ".tsx", ".js", ".jsx", ".mts", ".mjs", ".cjs"}

\* the specifier with `to` in place of its extension when that is one of `from`
C20_Substituted(sp, from, to) ==
  IF sp.ext \in from THEN [sp EXCEPT !.ext = to] ELSE sp

\* the order the code follows: with a script extension, .ts, .tsx and .mts
\* for .js or .mjs, .cts for .cjs, and the specifier as given last; without
\* one, .ts, .tsx, .js, .jsx appended and the bare specifier never tried
C20_OrderFollowed(sp) ==
  IF C20_HasScriptExtension(sp)
  THEN <<C20_Substituted(sp, {".js", ".mjs"}, ".ts"),
         C20_Substituted(sp, {".js", ".mjs"}, ".tsx"),
         C20_Substituted(sp, {".js", ".mjs"}, ".mts"),
         C20_Substituted(sp, {".cjs"}, ".cts"),
         sp>>
  ELSE <<[sp EXCEPT !.stem = sp.stem \o sp.ext, !.ext = ".ts"],
         [sp EXCEPT !.stem = sp.stem \o sp.ext, !.ext = ".tsx"],
         [sp EXCEPT !.stem = sp.stem \o sp.ext, !.ext = ".js"],
         [sp EXCEPT !.stem = sp.stem \o sp.ext, !.ext = ".jsx"]>>

\* the order of the statement: as given, then the substitutions, then, with
\* no extension, the appended list
C20_OrderStated(sp) ==
  <<sp>> \o
  (IF C20_HasScriptExtension(sp)
   THEN <<C20_Substituted(sp, {".js", ".mjs"}, ".ts"),
          C20_Substituted(sp, {".js", ".mjs"}, ".tsx"),
          C20_Substituted(sp, {".js", ".mjs"}, ".mts"),
          C20_Substituted(sp, {".cjs"}, ".cts")>>
   ELSE <<[sp EXCEPT !.stem = sp.stem \o sp.ext, !.ext = ".ts"],
          [sp EXCEPT !.stem = sp.stem \o sp.ext, !.ext = ".tsx"],
          [sp EXCEPT !.stem = sp.stem \o sp.ext, !.ext = ".js"],
          [sp EXCEPT !.stem = sp.stem \o sp.ext, !.ext = ".jsx"]>>)

\* the stats made so far follow `order` from its start, each but the last
\* failed, and a call that returned an existing file returned the last one
\* stat'ed, the first of `order` on disk
C20_TriedInOrder(order) ==
  /\ Len(ipStats) <= Len(order)
  /\ ipStats = C20_Take(C20_Paths(order), Len(ipStats))
  /\ \A i \in 1..(Len(ipStats) - 1) : ipStats[i] \notin disk
  /\ ipPc = "done"
     => IF \E i \in 1..Len(order) : JoinPath(order[i]) \in disk
        THEN /\ ipStats # <<>>
             /\ ipResult = ipStats[Len(ipStats)]
             /\ ipResult \in disk
        ELSE Len(ipStats) = Len(order)

\* C20 (as amended): for a relative import specifier resolveImportPath tries,
\* in order, the specifier with .ts, .tsx, .mts substituted for .js or .mjs
\* and .cts for .cjs, and the specifier as given last; or, when it has no
\* script extension, the specifier with .ts, .tsx, .js, .jsx appended; and it
\* returns the first candidate that exists on disk.
C20_CandidateOrder ==
  ipPc \in {"stat", "done"} /\ IsRelative(importPath)
  => C20_TriedInOrder(C20_OrderFollowed(importPath))

\* "./x.js" while x.ts and x.js both exist: x.ts is returned after one stat
C20_Witness ==
  /\ ipPc = "done"
  /\ importPath = Specifier("./", "x", ".js")
  /\ disk = {"/dir/x.js", "/dir/x.ts"}
  /\ ipStats = <<"/dir/x.ts">>
  /\ ipResult = "/dir/x.ts"

\* C20 (as stated): for a relative import specifier resolveImportPath tries
\* the specifier as given first, then the substitutions, then the appended
\* extensions, and returns the first candidate that exists on disk.
C20_AsGivenFirst ==
  ipPc \in {"stat", "done"} /\ IsRelative(importPath)
  => C20_TriedInOrder(C20_OrderStated(importPath))

\* C21: resolveImportPath returns either the location of a file that exists
\* on disk or none; when no candidate of a relative specifier exists it
\* returns none, never the location of a file that does not exist.
C21_ExistingOrNone ==
  ipPc = "done" => ipResult = NoUri \/ ipResult \in disk

-----------------------------------------------------------------------------
(* Claims about resolveVariable, checked under SpecResolve *)

\* C2: the claim that resolveVariable never raises, whatever fails inside a
\* strategy.
C2_NeverRaises == outcome # "raised"

\* what the oracle hover yields at the position, asked first
C3_S2 == ExtractUnionTypesFromPosition(0).vals

\* what resolvePropertyAccess yields for the expression
C3_S1 == ResolvePropertyAccess(varExpression, 0).vals

Called(name) == \E k \in 1..Len(trace) : trace[k].name = name

CalledAndEmpty(name) ==
  \E k \in 1..Len(trace) : trace[k].name = name /\ trace[k].vals = <<>>

C15_Root == LocalElseImported(Document, varExpression[1])

C15_RootDecl == DeclAt(C15_Root.f, C15_Root.i)

\* the property assignments of the root object that are named as the
\* expression's second part
C15_Named ==
  {k \in DOMAIN C15_RootDecl.init.props :
     /\ C15_RootDecl.init.props[k].kind = "assign"
     /\ C15_RootDecl.init.props[k].name = varExpression[2]}

\* the expression is root.prop, root an object literal without declared type
\* that has the property prop
C15_Applies ==
  /\ IsDotted(varExpression)
  /\ C15_Root # NoNode
  /\ C15_RootDecl.kind = "var"
  /\ C15_RootDecl.type.k = "none"
  /\ C15_RootDecl.init.k = "obj"
  /\ C15_Named # {}

C15_Property == C15_RootDecl.init.props[FirstIndex(C15_Named)]

\* what the assertion rule gives for `lit as T` in file f
C15_Asserted(f, init) ==
  LET t == LocalElseImported(f, init.type)
      ofT == IF t = NoNode THEN <<>>
             ELSE ExtractValuesFromDeclaration(t.f, t.i, t.f, t.f).vals
  IN IF ofT # <<>> THEN ofT
     ELSE IF init.ek = "str" THEN <<init.text>> ELSE <<>>

\* whether vals is what the three rules give for the property
C15_AsRuled(f, prop, vals) ==
  IF prop.init.k = "as" THEN vals = C15_Asserted(f, prop.init)
  ELSE IF prop.init.k = "str" THEN vals = <<prop.init.text>>
  ELSE IF prop.init.k = "ident" /\ FindDeclarationInFile(f, prop.init.text) # 0
  THEN vals = ExtractValuesFromDeclaration(
                f, FindDeclarationInFile(f, prop.init.text), f, f).vals
  ELSE TRUE

\* the k-th strategy called has returned (it neither raised nor diverged)
C15_Completed(k) == k < Len(trace) \/ outcome \notin {"raised", "diverged"}

\* C15: single-hop property access on an object-literal root without
\* declared type: for root.prop a property `lit as T` resolves to what the
\* assertion rule gives for T, a string literal to its singleton, an
\* identifier to the set of the identifier's declaration.
C15_SingleHopPropertyAccess ==
  C15_Applies
  => \A k \in 1..Len(trace) :
       (trace[k].name = "propertyAccess" /\ C15_Completed(k))
       => C15_AsRuled(C15_Root.f, C15_Property, trace[k].vals)

\* the declared type T of the root: its declaration, local else imported
C16_DeclaredType ==
  LocalElseImported(C15_Root.f, TypeText(C15_Root.f, C15_Root.f, C15_RootDecl.type))

\* the expression is root.prop and root carries a declared type that resolves
C16_Applies ==
  /\ IsDotted(varExpression)
  /\ C15_Root # NoNode
  /\ C15_RootDecl.kind = "var"
  /\ C15_RootDecl.init.k # "none"
  /\ C15_RootDecl.type.k = "ref"
  /\ C16_DeclaredType # NoNode

\* the property signatures of T named as the expression's second part
C16_Members ==
  {i \in DOMAIN Decls(C16_DeclaredType.f) :
     /\ Decls(C16_DeclaredType.f)[i].kind = "propsig"
     /\ Decls(C16_DeclaredType.f)[i].parent = C16_DeclaredType.i
     /\ Decls(C16_DeclaredType.f)[i].name = varExpression[2]}

\* the literal set of the type of member prop within T
C16_MemberValues ==
  IF C16_Members = {} THEN <<>>
  ELSE ExtractValuesFromDeclaration(
         C16_DeclaredType.f, FirstIndex(C16_Members),
         C16_DeclaredType.f, C16_DeclaredType.f).vals

\* C16: when the root of root.prop carries a declared type T, what
\* resolvePropertyAccess returns is the literal set of the type of member
\* prop within T, not the literal set of T as a whole.
C16_DeclaredTypeMember ==
  C16_Applies
  => \A k \in 1..Len(trace) :
       (trace[k].name = "propertyAccess" /\ C15_Completed(k))
       => trace[k].vals = C16_MemberValues

\* the hover queries issued before the k-th strategy was called
C19_Before(k) == IF k = 1 THEN 0 ELSE trace[k - 1].q

\* the answer says "not ready yet"
C19_NotReady(a) == a.kind = "text" /\ IncludesLoading(a.text)

\* the k-th strategy called has consulted the hover text and its first
\* answer was "not ready yet"
C19_MetLoading(k) ==
  /\ trace[k].q > C19_Before(k)
  /\ C19_NotReady(HoverAnswer(C19_Before(k) + 1))

\* C19: on every path on which resolveVariable consults the hover text, a
\* query answered "not ready yet" is issued again exactly once; if the second
\* answer is not ready or absent the strategy yields empty; there is no
\* third query.
C19_OracleRetry ==
  \A k \in 1..Len(trace) :
    C19_MetLoading(k)
    => /\ trace[k].q = C19_Before(k) + 2
       /\ HoverAnswer(C19_Before(k) + 2).kind # "text"
            \/ C19_NotReady(HoverAnswer(C19_Before(k) + 2))
          => trace[k].vals = <<>>

\* C25 (checked under SpecResolveTwice): two calls of resolveVariable on the
\* same source text and position, with no change of the files in between,
\* return the same values in the same order, also when the language service
\* answered "loading" to one of the queries.
C25_Determinism ==
  rvRun = 2 /\ outcome = "returned" => result = firstResult

\* C28: for an expression with more than one property hop resolvePropertyAccess
\* fails closed: the values of the member the whole chain names, or
\* nothing.  No property of the documents has a member `length` with literal
\* values, so for m.p.length that is nothing.
C28_FailsClosed ==
  \A k \in 1..Len(trace) :
    trace[k].name = "propertyAccess" /\ Len(varExpression) > 2
    => trace[k].vals = <<>>

\* the order the claim fixes: property access, then the oracle at the
\* position, then the local scope, then the imports
C4_Rank(name) ==
  IF name = "propertyAccess" THEN 1
  ELSE IF name = "languageServer" THEN 2
  ELSE IF name = "localScope" THEN 3
  ELSE IF name = "imports" THEN 4
  ELSE 0

\* C4: the strategies are called in a fixed order, each at most once; after
\* the property-access attempt come the oracle, the local scope and the
\* imports in this order; a strategy that returned a non-empty set is the
\* last one called and its set is the result; an empty result is returned
\* only after every applicable strategy was called and returned empty.
C4_ShortCircuitInOrder ==
  /\ \A j, k \in 1..Len(trace) :
       j < k => /\ trace[j].name # trace[k].name
                /\ C4_Rank(trace[j].name) <= C4_Rank(trace[k].name)
  /\ \A k \in 1..Len(trace) :
       trace[k].vals # <<>>
       => /\ k = Len(trace)
          /\ outcome \in {"returned", "diverged"}
          /\ outcome = "returned" => result = trace[k].vals
  /\ outcome = "returned" /\ result # <<>>
     => trace # <<>> /\ trace[Len(trace)].vals = result
  /\ outcome = "returned" /\ result = <<>>
     => /\ \A k \in 1..Len(trace) : trace[k].vals = <<>>
        /\ Called("localScope") /\ Called("imports")
        /\ position => Called("languageServer")
        /\ IsDotted(varExpression) => Called("propertyAccess")

\* the oracle was consulted and found nothing, the local scope resolved the
\* variable, the imports were not tried
C4_Witness ==
  /\ outcome = "returned" /\ result # <<>>
  /\ CalledAndEmpty("languageServer")
  /\ trace[Len(trace)].name = "localScope"
  /\ ~Called("imports")

-----------------------------------------------------------------------------
(* Reference enumeration of the Cartesian expansion, by mixed-radix index: *)
(* slot j of the n-th combination is option                                *)
(* (n div (product of the later slots' sizes)) mod (size of slot j)        *)

\* the options of one slot when the first `k` values of a resolved set count
OptionsUpTo(part, k) ==
  IF part.type = "static" THEN <<part.value>>
  ELSE IF part.value \in DOMAIN variableValues
            /\ Len(variableValues[part.value]) > 0
       THEN SubSeq(variableValues[part.value], 1,
                   Min(k, Len(variableValues[part.value])))
       ELSE <<"{" \o part.value \o "}">>

IsResolvedSlot(j) ==
  /\ templateParts[j].type = "variable"
  /\ templateParts[j].value \in DOMAIN variableValues
  /\ Len(variableValues[templateParts[j].value]) > 0

RECURSIVE WeightAfter(_, _)
WeightAfter(j, k) ==
  IF j >= Len(templateParts) THEN 1
  ELSE Len(OptionsUpTo(templateParts[j + 1], k)) * WeightAfter(j + 1, k)

TotalCombinations(k) == WeightAfter(0, k)

RECURSIVE ComboFrom(_, _, _)
ComboFrom(j, n, k) ==
  IF j > Len(templateParts) THEN ""
  ELSE LET opts == OptionsUpTo(templateParts[j], k)
           d == (n \div WeightAfter(j, k)) % Len(opts)
       IN opts[d + 1] \o ComboFrom(j + 1, n, k)

\* the n-th (0-based) string of the expansion, leftmost slot varying slowest
Combo(n, k) == ComboFrom(1, n, k)

\* C5: generateCombinations returns the first MaxResults (20) strings, or all
\* if fewer, of the ordered depth-first Cartesian expansion of the parts over
\* the first MaxValuesPerVariable (10) values of each resolved set, leftmost
\* variable varying slowest, static parts copied verbatim in place.
C5_FirstTwentyInOrder ==
  genPc = "done" =>
    /\ Len(output) <= MaxResults
    /\ output = [i \in 1..Min(MaxResults, TotalCombinations(MaxValuesPerVariable))
                   |-> Combo(i - 1, MaxValuesPerVariable)]

\* three variables of 10 values each: 1000 combinations, 20 returned
C5_Witness ==
  /\ genPc = "done"
  /\ Cardinality({j \in 1..Len(templateParts) : IsResolvedSlot(j)}) = 3
  /\ \A j \in 1..Len(templateParts) :
       IsResolvedSlot(j) =>
         Len(variableValues[templateParts[j].value]) = MaxValuesPerVariable
  /\ TotalCombinations(MaxValuesPerVariable) = 1000
  /\ Len(output) = MaxResults

\* C6: at every point during generation at most MaxResults (20) strings have
\* been accumulated in `results`.
C6_NeverMoreThanTwentyAccumulated == Len(results) <= MaxResults

\* C7: no returned string takes, in the slot of a resolved variable, the 11th
\* or a later value of that variable's set, and the slot values of successive
\* strings follow the original order of the set.
C7_OnlyFirstTenValues ==
  genPc = "done" =>
    /\ \A i \in 1..Len(output) :
         \A n \in 0..(TotalCombinations(MaxSetSize + 1) - 1) :
           (\E j \in 1..Len(templateParts) :
              /\ IsResolvedSlot(j)
              /\ (n \div WeightAfter(j, MaxSetSize + 1))
                   % Len(OptionsUpTo(templateParts[j], MaxSetSize + 1))
                 >= MaxValuesPerVariable)
           => output[i] # Combo(n, MaxSetSize + 1)
    /\ \A i \in 1..(Len(output) - 1) :
         LET n1 == CHOOSE n \in 0..(TotalCombinations(MaxSetSize + 1) - 1) :
                     output[i] = Combo(n, MaxSetSize + 1)
             n2 == CHOOSE n \in 0..(TotalCombinations(MaxSetSize + 1) - 1) :
                     output[i + 1] = Combo(n, MaxSetSize + 1)
         IN n1 < n2

\* a set of more than 10 values was branched on
C7_Witness ==
  /\ genPc = "done"
  /\ \E j \in 1..Len(templateParts) :
       /\ IsResolvedSlot(j)
       /\ Len(variableValues[templateParts[j].value]) > MaxValuesPerVariable
  /\ Len(output) >= MaxValuesPerVariable

\* C8: a variable part with no resolved set (absent from the map, or mapped to
\* the empty list) contributes `{expressionText}` in its slot of every
\* returned string, and the returned list is never empty.
C8_PlaceholderForUnresolved ==
  genPc = "done" =>
    /\ Len(output) >= 1
    /\ \A i \in 1..Len(output) :
         \E n \in 0..(TotalCombinations(MaxSetSize + 1) - 1) :
           output[i] = Combo(n, MaxSetSize + 1)

\* one variable absent from the map, one mapped to [], one resolved
C8_Witness ==
  /\ genPc = "done"
  /\ \E j \in 1..Len(templateParts) :
       /\ templateParts[j].type = "variable"
       /\ templateParts[j].value \notin DOMAIN variableValues
  /\ \E j \in 1..Len(templateParts) :
       /\ templateParts[j].type = "variable"
       /\ templateParts[j].value \in DOMAIN variableValues
       /\ variableValues[templateParts[j].value] = <<>>
  /\ \E j \in 1..Len(templateParts) : IsResolvedSlot(j)
  /\ Len(output) >= 1

====
